---------------------------- MODULE Spec2Model ----------------------------
(***************************************************************************)
(* Model of the S->C->T core of rdbms-to-graph-migration:                  *)
(*   - the schema model (src/src/models/schema_model.py),                  *)
(*   - the semantic enricher (src/src/analyzers/semantic_enricher.py),     *)
(*   - the graph transformer (src/src/transformers/graph_transformer.py),  *)
(*   - the graph model (src/src/models/graph_model.py),                    *)
(*   - the string helpers (src/src/utils/helpers.py).                      *)
(*                                                                         *)
(* Python strings are sequences of one-character strings, so that the      *)
(* string functions of the code (upper, title, replace, split, regular     *)
(* expression substitution, substring test) are computed, not assumed.     *)
(* Python dicts are sequences of entries in insertion order.               *)
(***************************************************************************)
EXTENDS Integers, Sequences, FiniteSets, TLC

VARIABLES
    schema,      \* DatabaseSchema.tables: the tables, in insertion order
    cm,          \* SemanticEnricher.conceptual_model
    phase,       \* position of the enricher inside enrich()
    tr,          \* the GraphTransformer: how it was constructed
    gm,          \* GraphTransformer.graph_model / a GraphModel
    tstate,      \* outcome of GraphTransformer.transform()
    rowcall,     \* the last transform_row_to_node call: arguments and outcome
    added,       \* the RelationshipTypes handed to add_relationship_type, in order
    twin         \* a second SemanticEnricher on a schema of its own: schema, model, position

vars == <<schema, cm, phase, tr, gm, tstate, rowcall, added, twin>>

-----------------------------------------------------------------------------
(* Python str operations on sequences of characters.                       *)

LowerChars == <<"a","b","c","d","e","f","g","h","i","j","k","l","m",
                "n","o","p","q","r","s","t","u","v","w","x","y","z">>
UpperChars == <<"A","B","C","D","E","F","G","H","I","J","K","L","M",
                "N","O","P","Q","R","S","T","U","V","W","X","Y","Z">>
DigitChars == <<"0","1","2","3","4","5","6","7","8","9">>

LowerSet == {LowerChars[i] : i \in DOMAIN LowerChars}
UpperSet == {UpperChars[i] : i \in DOMAIN UpperChars}
DigitSet == {DigitChars[i] : i \in DOMAIN DigitChars}

\* The value None of an Optional[str] field: no Python string equals it.
NoneS == <<"<None>">>

\* Python truthiness of an Optional[str]: None and '' are false.
Truthy(s) == s # NoneS /\ s # <<>>

isalpha(c) == c \in LowerSet \/ c \in UpperSet

\* [a-zA-Z0-9_]
IsWordChar(c) == isalpha(c) \/ c \in DigitSet \/ c = "_"

upperc(c) == IF c \in LowerSet
             THEN UpperChars[CHOOSE i \in DOMAIN LowerChars : LowerChars[i] = c]
             ELSE c

lowerc(c) == IF c \in UpperSet
             THEN LowerChars[CHOOSE i \in DOMAIN UpperChars : UpperChars[i] = c]
             ELSE c

upper(s) == [i \in 1..Len(s) |-> upperc(s[i])]

lower(s) == [i \in 1..Len(s) |-> lowerc(s[i])]

\* str.capitalize(): first character upper-cased, the rest lower-cased
capitalize(s) == [i \in 1..Len(s) |-> IF i = 1 THEN upperc(s[i]) ELSE lowerc(s[i])]

\* str.title(): a letter is upper-cased when it does not follow a letter
title(s) == [i \in 1..Len(s) |->
               IF i > 1 /\ isalpha(s[i-1]) THEN lowerc(s[i]) ELSE upperc(s[i])]

\* sub in s
Contains(s, sub) ==
    \E i \in 0..(Len(s) - Len(sub)) : SubSeq(s, i + 1, i + Len(sub)) = sub

\* s.replace(old, new), old non-empty: leftmost non-overlapping occurrences
RECURSIVE replace(_, _, _)
replace(s, old, new) ==
    IF Len(s) < Len(old) THEN s
    ELSE IF SubSeq(s, 1, Len(old)) = old
         THEN new \o replace(SubSeq(s, Len(old) + 1, Len(s)), old, new)
         ELSE <<s[1]>> \o replace(Tail(s), old, new)

\* s.split(d) for a one-character separator d
RECURSIVE split(_, _)
split(s, d) ==
    IF \A i \in 1..Len(s) : s[i] # d THEN <<s>>
    ELSE LET i == CHOOSE k \in 1..Len(s) :
                     s[k] = d /\ \A j \in 1..(k - 1) : s[j] # d
         IN  <<SubSeq(s, 1, i - 1)>> \o split(SubSeq(s, i + 1, Len(s)), d)

\* ''.join(parts)
RECURSIVE join(_)
join(parts) == IF parts = <<>> THEN <<>> ELSE Head(parts) \o join(Tail(parts))

\* s.lstrip(c) / s.rstrip(c) / s.strip(c) for a one-character set
RECURSIVE lstrip(_, _)
lstrip(s, c) == IF s # <<>> /\ s[1] = c THEN lstrip(Tail(s), c) ELSE s

RECURSIVE rstrip(_, _)
rstrip(s, c) == IF s # <<>> /\ s[Len(s)] = c
                THEN rstrip(SubSeq(s, 1, Len(s) - 1), c) ELSE s

strip(s, c) == rstrip(lstrip(s, c), c)

\* re.sub(r'_+', '_', s)
RECURSIVE collapse_underscores(_)
collapse_underscores(s) ==
    IF Len(s) < 2 THEN s
    ELSE IF s[1] = "_" /\ s[2] = "_" THEN collapse_underscores(Tail(s))
         ELSE <<s[1]>> \o collapse_underscores(Tail(s))

\* re.sub(r'([A-Z])', r'_\1', s)
RECURSIVE underscore_before_capitals(_)
underscore_before_capitals(s) ==
    IF s = <<>> THEN <<>>
    ELSE (IF s[1] \in UpperSet THEN <<"_", s[1]>> ELSE <<s[1]>>)
         \o underscore_before_capitals(Tail(s))

-----------------------------------------------------------------------------
(* src/src/utils/helpers.py                                                *)

sanitize_label(name) ==
    LET kept  == SelectSeq(name, IsWordChar)
        s1    == IF kept # <<>> /\ ~isalpha(kept[1]) THEN <<"N">> \o kept ELSE kept
        parts == SelectSeq(split(s1, "_"), LAMBDA w : w # <<>>)
        s2    == join([i \in 1..Len(parts) |-> capitalize(parts[i])])
    IN  IF s2 # <<>> THEN s2 ELSE <<"N","o","d","e">>

sanitize_property_name(name) ==
    LET s0    == [i \in 1..Len(name) |-> IF IsWordChar(name[i]) THEN name[i] ELSE "_"]
        s1    == strip(s0, "_")
        parts == split(s1, "_")
        rest  == SelectSeq(Tail(parts), LAMBDA w : w # <<>>)
        s2    == lower(parts[1]) \o join([i \in 1..Len(rest) |-> capitalize(rest[i])])
    IN  IF s2 # <<>> THEN s2 ELSE <<"p","r","o","p","e","r","t","y">>


\* create_relationship_type_name(from_table, to_table, fk_name): fk_name is unused
create_relationship_type_name(from_table, to_table) ==
    LET from_singular == rstrip(from_table, "s")
        to_singular   == rstrip(to_table, "s")
        n0 == from_singular \o <<"_">> \o to_singular
        n1 == upper(underscore_before_capitals(n0))
        n2 == [i \in 1..Len(n1) |->
                 IF n1[i] \in UpperSet \/ n1[i] \in DigitSet \/ n1[i] = "_"
                 THEN n1[i] ELSE "_"]
    IN  strip(collapse_underscores(n2), "_")

\* any(t in sql_type_lower for t in family)
AnyIn(family, s) == \E t \in family : Contains(s, t)

\* the type mapping without the lower-casing of the type (a variant)
convert_sql_type_case_sensitive(sql_type) ==
    LET l == sql_type IN
    IF AnyIn({<<"i","n","t">>, <<"s","e","r","i","a","l">>,
              <<"b","i","g","s","e","r","i","a","l">>}, l) THEN "INTEGER"
    ELSE IF AnyIn({<<"f","l","o","a","t">>, <<"d","o","u","b","l","e">>,
                   <<"r","e","a","l">>, <<"d","e","c","i","m","a","l">>,
                   <<"n","u","m","e","r","i","c">>}, l) THEN "FLOAT"
    ELSE IF AnyIn({<<"b","o","o","l">>, <<"b","i","t">>}, l) THEN "BOOLEAN"
    ELSE IF AnyIn({<<"d","a","t","e">>, <<"t","i","m","e">>,
                   <<"t","i","m","e","s","t","a","m","p">>}, l)
         THEN IF Contains(l, <<"d","a","t","e">>) /\ ~Contains(l, <<"t","i","m","e">>)
              THEN "DATE" ELSE "DATETIME"
    ELSE IF Contains(l, <<"j","s","o","n">>) THEN "MAP"
    ELSE "STRING"

convert_sql_type_to_graph_type(sql_type) ==
    LET l == lower(sql_type) IN
    IF AnyIn({<<"i","n","t">>, <<"s","e","r","i","a","l">>,
              <<"b","i","g","s","e","r","i","a","l">>}, l) THEN "INTEGER"
    ELSE IF AnyIn({<<"f","l","o","a","t">>, <<"d","o","u","b","l","e">>,
                   <<"r","e","a","l">>, <<"d","e","c","i","m","a","l">>,
                   <<"n","u","m","e","r","i","c">>}, l) THEN "FLOAT"
    ELSE IF AnyIn({<<"b","o","o","l">>, <<"b","i","t">>}, l) THEN "BOOLEAN"
    ELSE IF AnyIn({<<"d","a","t","e">>, <<"t","i","m","e">>,
                   <<"t","i","m","e","s","t","a","m","p">>}, l)
         THEN IF Contains(l, <<"d","a","t","e">>) /\ ~Contains(l, <<"t","i","m","e">>)
              THEN "DATE" ELSE "DATETIME"
    ELSE IF Contains(l, <<"j","s","o","n">>) THEN "MAP"
    ELSE "STRING"

-----------------------------------------------------------------------------
(* src/src/models/schema_model.py                                          *)

\* Optional[PrimaryKey]: None is a record with present = FALSE
NoPK == [present |-> FALSE, columns |-> <<>>]
PK(cols) == [present |-> TRUE, columns |-> cols]

Column(name, data_type, is_nullable) ==
    [name |-> name, data_type |-> data_type, is_nullable |-> is_nullable]

\* ForeignKey as built by the schema analyzer: the enrichment fields at their defaults
ForeignKey(name, column, referenced_table, referenced_column, on_delete) ==
    [name |-> name, column |-> column, referenced_table |-> referenced_table,
     referenced_column |-> referenced_column, on_delete |-> on_delete,
     cardinality |-> "None", relationship_name |-> NoneS,
     is_inheritance |-> FALSE, is_aggregation |-> FALSE, is_weak_entity |-> FALSE]

Index(columns, is_unique) == [columns |-> columns, is_unique |-> is_unique]

\* Table as built by the schema analyzer: the classification fields at their defaults
Table(name, columns, primary_key, foreign_keys, indexes) ==
    [name |-> name, columns |-> columns, primary_key |-> primary_key,
     foreign_keys |-> foreign_keys, indexes |-> indexes,
     is_superclass |-> FALSE, is_subclass |-> FALSE, superclass_table |-> NoneS,
     is_weak_entity |-> FALSE, owner_table |-> NoneS]

Range(seq) == {seq[i] : i \in DOMAIN seq}

\* Table.get_column: the first column of that name, or None (index 0)
ColumnIndex(table, column_name) ==
    IF \E i \in DOMAIN table.columns : table.columns[i].name = column_name
    THEN CHOOSE i \in DOMAIN table.columns :
             /\ table.columns[i].name = column_name
             /\ \A j \in 1..(i - 1) : table.columns[j].name # column_name
    ELSE 0

HasColumn(table, column_name) == ColumnIndex(table, column_name) # 0

get_column(table, column_name) == table.columns[ColumnIndex(table, column_name)]

\* is_junction_table without the test for a primary key (a variant that
\* takes a table with no primary key for a junction table)
is_junction_table_without_pk(table) ==
    /\ Len(table.foreign_keys) = 2
    /\ Range(table.primary_key.columns)
          \subseteq {table.foreign_keys[i].column : i \in DOMAIN table.foreign_keys}

is_junction_table(table) ==
    IF Len(table.foreign_keys) # 2 THEN FALSE
    ELSE IF ~table.primary_key.present THEN FALSE
    ELSE LET fk_columns == {table.foreign_keys[i].column : i \in DOMAIN table.foreign_keys}
             pk_columns == Range(table.primary_key.columns)
         IN  pk_columns \subseteq fk_columns

\* DatabaseSchema.get_table: the index of the table of that name, 0 for None
TableIndex(tables, table_name) ==
    IF \E i \in DOMAIN tables : tables[i].name = table_name
    THEN CHOOSE i \in DOMAIN tables : tables[i].name = table_name
    ELSE 0

get_junction_tables(tables) == SelectSeq(tables, is_junction_table)

get_entity_tables(tables) == SelectSeq(tables, LAMBDA t : ~is_junction_table(t))

-----------------------------------------------------------------------------
(* src/src/models/conceptual_model.py                                      *)

\* ConceptualModel as built by SemanticEnricher.__init__
EmptyConceptualModel ==
    [entities |-> <<>>, relationships |-> <<>>,
     inheritance_hierarchies |-> <<>>, weak_entity_groups |-> <<>>]

\* ConceptualModel.add_entity: self.entities[entity.name] = entity
add_entity(entities, entity) ==
    IF \E i \in DOMAIN entities : entities[i].name = entity.name
    THEN [i \in DOMAIN entities |->
            IF entities[i].name = entity.name THEN entity ELSE entities[i]]
    ELSE Append(entities, entity)

\* ConceptualModel.add_relationship
add_relationship(relationships, relationship) == Append(relationships, relationship)

-----------------------------------------------------------------------------
(* src/src/analyzers/semantic_enricher.py                                  *)
(* Every pass maps the pair st = [schema, cm] to the pair it leaves.       *)

\* _add_to_hierarchy(superclass, subclass)
add_to_hierarchy(hierarchies, superclass, subclass) ==
    IF \E i \in DOMAIN hierarchies : superclass \in Range(hierarchies[i])
    THEN LET h == CHOOSE i \in DOMAIN hierarchies :
                      /\ superclass \in Range(hierarchies[i])
                      /\ \A j \in 1..(i - 1) : superclass \notin Range(hierarchies[j])
         IN  [hierarchies EXCEPT ![h] = Append(@, subclass)]
    ELSE Append(hierarchies, <<superclass, subclass>>)

\* the test of lines 94-100 on one foreign key
IsInheritanceFk(tables, table, fk) ==
    /\ fk.column \in Range(table.primary_key.columns)
    /\ LET r == TableIndex(tables, fk.referenced_table) IN
       /\ r # 0
       /\ tables[r].primary_key.present
       /\ LET ref_pk_columns == Range(tables[r].primary_key.columns) IN
          \/ {fk.referenced_column} = ref_pk_columns
          \/ fk.referenced_column \in ref_pk_columns

\* lines 102-115: the marks one inheritance foreign key leaves
MarkInheritance(st, t, f) ==
    LET fk == st.schema[t].foreign_keys[f]
        r  == TableIndex(st.schema, fk.referenced_table)
        s1 == [st.schema EXCEPT ![t].is_subclass = TRUE,
                                ![t].superclass_table = fk.referenced_table]
        s2 == [s1 EXCEPT ![r].is_superclass = TRUE]
        s3 == [s2 EXCEPT ![t].foreign_keys[f].is_inheritance = TRUE,
                         ![t].foreign_keys[f].relationship_name =
                             <<"I","S","_","A","_">> \o upper(fk.referenced_table),
                         ![t].foreign_keys[f].cardinality = "1:1"]
    IN  [schema |-> s3,
         cm |-> [st.cm EXCEPT !.inheritance_hierarchies =
                    add_to_hierarchy(@, fk.referenced_table, st.schema[t].name)]]

RECURSIVE InheritanceFks(_, _, _)
InheritanceFks(st, t, f) ==
    IF f > Len(st.schema[t].foreign_keys) THEN st
    ELSE InheritanceFks(
             IF IsInheritanceFk(st.schema, st.schema[t], st.schema[t].foreign_keys[f])
             THEN MarkInheritance(st, t, f) ELSE st,
             t, f + 1)

RECURSIVE InheritanceTables(_, _)
InheritanceTables(st, t) ==
    IF t > Len(st.schema) THEN st
    ELSE IF ~st.schema[t].primary_key.present \/ st.schema[t].foreign_keys = <<>>
         THEN InheritanceTables(st, t + 1)
         ELSE InheritanceTables(InheritanceFks(st, t, 1), t + 1)

detect_inheritance_hierarchies(st) == InheritanceTables(st, 1)

\* weak_entity_groups[owner].append(name), the list created when absent
AddToWeakGroup(groups, owner, name) ==
    IF \E i \in DOMAIN groups : groups[i].owner = owner
    THEN [i \in DOMAIN groups |->
            IF groups[i].owner = owner
            THEN [groups[i] EXCEPT !.members = Append(@, name)] ELSE groups[i]]
    ELSE Append(groups, [owner |-> owner, members |-> <<name>>])

\* fk.on_delete and 'CASCADE' in fk.on_delete.upper()
IsCascade(fk) ==
    Truthy(fk.on_delete) /\ Contains(upper(fk.on_delete), <<"C","A","S","C","A","D","E">>)

\* a missing local column taken for a mandatory one (a variant)
IsMandatoryColumnOrMissing(table, fk) ==
    ~HasColumn(table, fk.column) \/ ~get_column(table, fk.column).is_nullable

\* fk_column and not fk_column.is_nullable, as a truth value
IsMandatoryColumn(table, fk) ==
    HasColumn(table, fk.column) /\ ~get_column(table, fk.column).is_nullable

\* lines 149-180: one foreign key of a table that is not a subclass
\* the classification without the test for a mandatory column (a variant)
ClassifyFkCascadeOnly(st, t, f) ==
    LET table  == st.schema[t]
        fk     == table.foreign_keys[f]
        is_weak == table.primary_key.present
                   /\ fk.column \in Range(table.primary_key.columns)
    IN  IF is_weak
        THEN [schema |-> [st.schema EXCEPT
                            ![t].is_weak_entity = TRUE,
                            ![t].owner_table = fk.referenced_table,
                            ![t].foreign_keys[f].is_weak_entity = TRUE,
                            ![t].foreign_keys[f].is_aggregation = TRUE],
              cm |-> [st.cm EXCEPT !.weak_entity_groups =
                         AddToWeakGroup(@, fk.referenced_table, table.name)]]
        ELSE IF IsCascade(fk)
        THEN [st EXCEPT !.schema[t].foreign_keys[f].is_aggregation = TRUE]
        ELSE st

ClassifyFk(st, t, f) ==
    LET table  == st.schema[t]
        fk     == table.foreign_keys[f]
        is_weak == table.primary_key.present
                   /\ fk.column \in Range(table.primary_key.columns)
        is_aggregation == is_weak \/ IsCascade(fk) \/ IsMandatoryColumn(table, fk)
    IN  IF is_weak
        THEN [schema |-> [st.schema EXCEPT
                            ![t].is_weak_entity = TRUE,
                            ![t].owner_table = fk.referenced_table,
                            ![t].foreign_keys[f].is_weak_entity = TRUE,
                            ![t].foreign_keys[f].is_aggregation = TRUE],
              cm |-> [st.cm EXCEPT !.weak_entity_groups =
                         AddToWeakGroup(@, fk.referenced_table, table.name)]]
        ELSE IF is_aggregation
        THEN [st EXCEPT !.schema[t].foreign_keys[f].is_aggregation = TRUE]
        ELSE st

RECURSIVE WeakFks(_, _, _)
WeakFks(st, t, f) ==
    IF f > Len(st.schema[t].foreign_keys) THEN st
    ELSE WeakFks(IF st.schema[t].foreign_keys[f].is_inheritance THEN st
                 ELSE ClassifyFk(st, t, f),
                 t, f + 1)

RECURSIVE WeakTables(_, _)
WeakTables(st, t) ==
    IF t > Len(st.schema) THEN st
    ELSE IF st.schema[t].is_subclass \/ st.schema[t].foreign_keys = <<>>
         THEN WeakTables(st, t + 1)
         ELSE WeakTables(WeakFks(st, t, 1), t + 1)

\* the weak-entity pass without the skip of subclass tables (a variant)
RECURSIVE WeakTablesOfSubclassesToo(_, _)
WeakTablesOfSubclassesToo(st, t) ==
    IF t > Len(st.schema) THEN st
    ELSE IF st.schema[t].foreign_keys = <<>>
         THEN WeakTablesOfSubclassesToo(st, t + 1)
         ELSE WeakTablesOfSubclassesToo(WeakFks(st, t, 1), t + 1)

detect_weak_entities_of_subclasses_too(st) == WeakTablesOfSubclassesToo(st, 1)

detect_weak_entities_and_aggregation(st) == WeakTables(st, 1)

\* lines 198-210: the foreign key's column is unique in its table
\* the uniqueness test without the tests for a single column (a variant that
\* takes any unique index or primary key that holds the column)
IsUniqueFkOfAnyWidth(table, fk) ==
    \/ \E i \in DOMAIN table.indexes :
          /\ table.indexes[i].is_unique
          /\ fk.column \in Range(table.indexes[i].columns)
    \/ /\ table.primary_key.present
       /\ fk.column \in Range(table.primary_key.columns)

IsUniqueFk(table, fk) ==
    \/ \E i \in DOMAIN table.indexes :
          /\ table.indexes[i].is_unique
          /\ fk.column \in Range(table.indexes[i].columns)
          /\ Len(table.indexes[i].columns) = 1
    \/ /\ table.primary_key.present
       /\ Len(table.primary_key.columns) = 1
       /\ fk.column = table.primary_key.columns[1]

\* the cardinality pass without the test for a cardinality already set (a variant)
InferCardinalityOverwriting(table, fk) ==
    [fk EXCEPT !.cardinality = IF IsUniqueFk(table, fk) THEN "1:1" ELSE "N:1"]

InferCardinality(table, fk) ==
    IF fk.cardinality # "None" THEN fk
    ELSE [fk EXCEPT !.cardinality = IF IsUniqueFk(table, fk) THEN "1:1" ELSE "N:1"]

infer_relationship_cardinality(st) ==
    [st EXCEPT !.schema =
        [t \in DOMAIN st.schema |->
            [st.schema[t] EXCEPT !.foreign_keys =
                [f \in DOMAIN st.schema[t].foreign_keys |->
                    InferCardinality(st.schema[t], st.schema[t].foreign_keys[f])]]]]

\* lines 227-241: the verbs dict, in insertion order
Verbs ==
    << [key |-> <<"m","a","n","a","g","e","r">>, verb |-> <<"M","A","N","A","G","E","S">>],
       [key |-> <<"e","m","p","l","o","y","e","e">>, verb |-> <<"E","M","P","L","O","Y","S">>],
       [key |-> <<"s","u","p","e","r","v","i","s","o","r">>,
        verb |-> <<"S","U","P","E","R","V","I","S","E","S">>],
       [key |-> <<"o","w","n","e","r">>, verb |-> <<"O","W","N","S">>],
       [key |-> <<"c","r","e","a","t","o","r">>, verb |-> <<"C","R","E","A","T","E","S">>],
       [key |-> <<"a","u","t","h","o","r">>,
        verb |-> <<"A","U","T","H","O","R","E","D","_","B","Y">>],
       [key |-> <<"u","s","e","r">>, verb |-> <<"U","S","E","D","_","B","Y">>],
       [key |-> <<"c","u","s","t","o","m","e","r">>,
        verb |-> <<"P","U","R","C","H","A","S","E","D","_","B","Y">>],
       [key |-> <<"d","e","p","a","r","t","m","e","n","t">>,
        verb |-> <<"W","O","R","K","S","_","I","N">>],
       [key |-> <<"c","o","m","p","a","n","y">>,
        verb |-> <<"W","O","R","K","S","_","F","O","R">>],
       [key |-> <<"c","a","t","e","g","o","r","y">>,
        verb |-> <<"B","E","L","O","N","G","S","_","T","O">>],
       [key |-> <<"p","a","r","e","n","t">>, verb |-> <<"C","H","I","L","D","_","O","F">>],
       [key |-> <<"p","r","o","j","e","c","t">>,
        verb |-> <<"A","S","S","I","G","N","E","D","_","T","O">>] >>

\* lines 248-269: the name given to a foreign key that has none
GenerateName(fk) ==
    LET fk_lower == replace(replace(lower(fk.column), <<"_","i","d">>, <<>>),
                            <<"i","d">>, <<>>)
        ref_table_lower == lower(fk.referenced_table)
        Hit(i) == \/ Contains(fk_lower, Verbs[i].key)
                  \/ Contains(ref_table_lower, Verbs[i].key)
        clean_ref == upper(replace(replace(fk.referenced_table, <<"t","b","l">>, <<>>),
                                   <<"_">>, <<>>))
    IN  IF \E i \in DOMAIN Verbs : Hit(i)
        THEN Verbs[CHOOSE i \in DOMAIN Verbs : Hit(i) /\ \A j \in 1..(i - 1) : ~Hit(j)].verb
        ELSE IF fk.is_aggregation
             THEN <<"P","A","R","T","_","O","F","_">> \o clean_ref
             ELSE <<"H","A","S","_">> \o clean_ref

generate_relationship_names(st) ==
    [st EXCEPT !.schema =
        [t \in DOMAIN st.schema |->
            [st.schema[t] EXCEPT !.foreign_keys =
                [f \in DOMAIN st.schema[t].foreign_keys |->
                    IF Truthy(st.schema[t].foreign_keys[f].relationship_name)
                    THEN st.schema[t].foreign_keys[f]
                    ELSE [st.schema[t].foreign_keys[f] EXCEPT
                             !.relationship_name = GenerateName(st.schema[t].foreign_keys[f])]]]]]

\* the entity of a table, its attributes without any foreign-key column (a variant)
EntityOfWithoutFkColumns(tables, table) ==
    LET fk_columns == {table.foreign_keys[i].column : i \in DOMAIN table.foreign_keys}
        names == [i \in DOMAIN table.columns |-> table.columns[i].name]
        subs  == SelectSeq(tables, LAMBDA o : o.is_subclass /\ o.superclass_table = table.name)
    IN  [name |-> table.name,
         entity_type |-> IF table.is_weak_entity THEN "WEAK" ELSE "STRONG",
         source_table |-> table.name,
         attributes |-> SelectSeq(names, LAMBDA c : c \notin fk_columns),
         key_attributes |-> IF table.primary_key.present
                            THEN table.primary_key.columns ELSE <<>>,
         superclass |-> IF table.is_subclass THEN table.superclass_table ELSE NoneS,
         subclasses |-> IF table.is_superclass
                        THEN [i \in DOMAIN subs |-> subs[i].name] ELSE <<>>,
         owner_entity |-> IF table.is_weak_entity THEN table.owner_table ELSE NoneS]

\* lines 281-308: the entity of one non-junction table
EntityOf(tables, table) ==
    LET fk_columns == {table.foreign_keys[i].column :
                          i \in {j \in DOMAIN table.foreign_keys :
                                    ~table.foreign_keys[j].is_inheritance}}
        names == [i \in DOMAIN table.columns |-> table.columns[i].name]
        subs  == SelectSeq(tables, LAMBDA o : o.is_subclass /\ o.superclass_table = table.name)
    IN  [name |-> table.name,
         entity_type |-> IF table.is_weak_entity THEN "WEAK" ELSE "STRONG",
         source_table |-> table.name,
         attributes |-> SelectSeq(names, LAMBDA c : c \notin fk_columns),
         key_attributes |-> IF table.primary_key.present
                            THEN table.primary_key.columns ELSE <<>>,
         superclass |-> IF table.is_subclass THEN table.superclass_table ELSE NoneS,
         subclasses |-> IF table.is_superclass
                        THEN [i \in DOMAIN subs |-> subs[i].name] ELSE <<>>,
         owner_entity |-> IF table.is_weak_entity THEN table.owner_table ELSE NoneS]

RECURSIVE EntitiesFrom(_, _, _)
EntitiesFrom(tables, entities, t) ==
    IF t > Len(tables) THEN entities
    ELSE EntitiesFrom(tables,
                      IF is_junction_table(tables[t]) THEN entities
                      ELSE add_entity(entities, EntityOf(tables, tables[t])),
                      t + 1)

create_conceptual_entities(st) ==
    [st EXCEPT !.cm.entities = EntitiesFrom(st.schema, @, 1)]

\* _parse_cardinality without the case "N:M" (a variant)
parse_cardinality_without_many_to_many(cardinality_str) ==
    IF cardinality_str = "1:1" THEN "ONE_TO_ONE"
    ELSE IF cardinality_str = "1:N" THEN "ONE_TO_MANY"
    ELSE IF cardinality_str = "N:1" THEN "MANY_TO_ONE"
    ELSE "MANY_TO_ONE"

\* _parse_cardinality
parse_cardinality(cardinality_str) ==
    IF cardinality_str = "1:1" THEN "ONE_TO_ONE"
    ELSE IF cardinality_str = "1:N" THEN "ONE_TO_MANY"
    ELSE IF cardinality_str = "N:1" THEN "MANY_TO_ONE"
    ELSE IF cardinality_str = "N:M" THEN "MANY_TO_MANY"
    ELSE "MANY_TO_ONE"

\* lines 323-332
FkSemantics(fk) ==
    IF fk.is_inheritance THEN "INHERITANCE"
    ELSE IF fk.is_aggregation \/ fk.is_weak_entity
         THEN IF IsCascade(fk) THEN "COMPOSITION" ELSE "AGGREGATION"
         ELSE "ASSOCIATION"

\* lines 322-350: the relationship of one foreign key of a non-junction table
FkRelationship(table, fk) ==
    [name |-> IF Truthy(fk.relationship_name) THEN fk.relationship_name
              ELSE <<"R","E","L","_">> \o table.name \o <<"_">> \o fk.referenced_table,
     source_entity |-> table.name,
     target_entity |-> fk.referenced_table,
     cardinality |-> parse_cardinality(IF fk.cardinality # "None"
                                       THEN fk.cardinality ELSE "N:1"),
     semantics |-> FkSemantics(fk),
     source_foreign_key |-> fk.name,
     source_junction_table |-> NoneS,
     attributes |-> <<>>,
     \* fk_column and not fk_column.is_nullable: None when the column is missing
     is_mandatory_source |-> IF ~HasColumn(table, fk.column) THEN "None"
                             ELSE IF get_column(table, fk.column).is_nullable
                                  THEN "False" ELSE "True",
     is_mandatory_target |-> "False"]

\* lines 359-379: the relationship of one junction table
\* the junction relationship with its endpoints exchanged (a variant)
JunctionRelationshipReversed(junction_table) ==
    LET fk1 == junction_table.foreign_keys[1]
        fk2 == junction_table.foreign_keys[2]
        fk_columns == {junction_table.foreign_keys[i].column :
                          i \in DOMAIN junction_table.foreign_keys}
        names == [i \in DOMAIN junction_table.columns |-> junction_table.columns[i].name]
        junction_clean == replace(title(replace(junction_table.name, <<"_">>, <<" ">>)),
                                  <<" ">>, <<"_">>)
    IN  [name |-> upper(junction_clean),
         source_entity |-> fk2.referenced_table,
         target_entity |-> fk1.referenced_table,
         cardinality |-> "MANY_TO_MANY",
         semantics |-> "ASSOCIATION",
         source_foreign_key |-> NoneS,
         source_junction_table |-> junction_table.name,
         attributes |-> SelectSeq(names, LAMBDA c : c \notin fk_columns),
         is_mandatory_source |-> "False",
         is_mandatory_target |-> "False"]

JunctionRelationship(junction_table) ==
    LET fk1 == junction_table.foreign_keys[1]
        fk2 == junction_table.foreign_keys[2]
        fk_columns == {junction_table.foreign_keys[i].column :
                          i \in DOMAIN junction_table.foreign_keys}
        names == [i \in DOMAIN junction_table.columns |-> junction_table.columns[i].name]
        junction_clean == replace(title(replace(junction_table.name, <<"_">>, <<" ">>)),
                                  <<" ">>, <<"_">>)
    IN  [name |-> upper(junction_clean),
         source_entity |-> fk1.referenced_table,
         target_entity |-> fk2.referenced_table,
         cardinality |-> "MANY_TO_MANY",
         semantics |-> "ASSOCIATION",
         source_foreign_key |-> NoneS,
         source_junction_table |-> junction_table.name,
         attributes |-> SelectSeq(names, LAMBDA c : c \notin fk_columns),
         is_mandatory_source |-> "False",
         is_mandatory_target |-> "False"]

\* lines 321-352: the relationships of one table's foreign keys, in order
RECURSIVE AddFkRelationships(_, _, _)
AddFkRelationships(table, relationships, f) ==
    IF f > Len(table.foreign_keys) THEN relationships
    ELSE AddFkRelationships(
             table,
             add_relationship(relationships, FkRelationship(table, table.foreign_keys[f])),
             f + 1)

\* lines 317-319: every table that is not a junction table, in order
RECURSIVE FkRelationshipsFrom(_, _, _)
FkRelationshipsFrom(tables, relationships, t) ==
    IF t > Len(tables) THEN relationships
    ELSE FkRelationshipsFrom(
             tables,
             IF is_junction_table(tables[t]) THEN relationships
             ELSE AddFkRelationships(tables[t], relationships, 1),
             t + 1)

\* lines 355-381: the junction relationships, in table order
RECURSIVE AddJunctionRelationships(_, _, _)
AddJunctionRelationships(junctions, relationships, j) ==
    IF j > Len(junctions) THEN relationships
    ELSE AddJunctionRelationships(
             junctions,
             IF Len(junctions[j].foreign_keys) < 2 THEN relationships
             ELSE add_relationship(relationships, JunctionRelationship(junctions[j])),
             j + 1)

create_conceptual_relationships(st) ==
    [st EXCEPT !.cm.relationships =
        AddJunctionRelationships(get_junction_tables(st.schema),
                                 FkRelationshipsFrom(st.schema, @, 1), 1)]

\* enrich(): the six passes in order
enrich(st) ==
    create_conceptual_relationships(
      create_conceptual_entities(
        generate_relationship_names(
          infer_relationship_cardinality(
            detect_weak_entities_and_aggregation(
              detect_inheritance_hierarchies(st))))))

-----------------------------------------------------------------------------
(* src/src/models/graph_model.py                                           *)

\* the fields of the dataclasses, i.e. the keywords their constructors accept
PropertyFields ==
    {"name", "type", "is_required", "is_indexed", "original_column"}
RelationshipTypeFields ==
    {"name", "from_label", "to_label", "properties", "source_foreign_key",
     "source_junction_table", "is_required"}

\* the fields without a default: a constructor call must give each of them
PropertyRequired == {"name", "type"}
RelationshipTypeRequired == {"name", "from_label", "to_label"}

\* a dataclass constructor call with these keywords raises TypeError
CtorRaises(keywords, fields, required) ==
    ~(keywords \subseteq fields) \/ ~(required \subseteq keywords)

Property(name, type, is_required, is_indexed, original_column) ==
    [name |-> name, type |-> type, is_required |-> is_required,
     is_indexed |-> is_indexed, original_column |-> original_column]

NodeLabel(name, properties, source_table, primary_key, indexes) ==
    [name |-> name, properties |-> properties, source_table |-> source_table,
     primary_key |-> primary_key, indexes |-> indexes]

RelationshipType(name, from_label, to_label, properties, source_foreign_key, source_junction_table) ==
    [name |-> name, from_label |-> from_label, to_label |-> to_label,
     properties |-> properties, source_foreign_key |-> source_foreign_key,
     source_junction_table |-> source_junction_table]

\* GraphModel as built by GraphTransformer.__init__
EmptyGraphModel == [node_labels |-> <<>>, relationship_types |-> <<>>]

\* GraphModel.add_node_label: self.node_labels[label.name] = label
add_node_label(g, label) ==
    [g EXCEPT !.node_labels =
        IF \E i \in DOMAIN @ : @[i].name = label.name
        THEN [i \in DOMAIN @ |-> IF @[i].name = label.name THEN label ELSE @[i]]
        ELSE Append(@, label)]

\* the dict key of add_relationship_type
RelationshipKey(rel_type) ==
    rel_type.from_label \o <<"_">> \o rel_type.name \o <<"_">> \o rel_type.to_label

\* GraphModel.add_relationship_type: self.relationship_types[key] = rel_type
add_relationship_type(g, rel_type) ==
    LET key == RelationshipKey(rel_type) IN
    [g EXCEPT !.relationship_types =
        IF \E i \in DOMAIN @ : @[i].key = key
        THEN [i \in DOMAIN @ |->
                IF @[i].key = key THEN [key |-> key, value |-> rel_type] ELSE @[i]]
        ELSE Append(@, [key |-> key, value |-> rel_type])]

\* GraphModel.get_node_label: the index of the label of that name, 0 for None
LabelIndex(g, name) ==
    IF \E i \in DOMAIN g.node_labels : g.node_labels[i].name = name
    THEN CHOOSE i \in DOMAIN g.node_labels : g.node_labels[i].name = name
    ELSE 0

-----------------------------------------------------------------------------
(* src/src/transformers/graph_transformer.py                               *)
(* tr says which of db_schema and conceptual_model the transformer was     *)
(* given; both are references to the live objects schema and cm.           *)

\* _get_property_type
get_property_type(sql_type) ==
    LET graph_type == convert_sql_type_to_graph_type(sql_type) IN
    IF graph_type \in {"STRING", "INTEGER", "FLOAT", "BOOLEAN", "DATE", "DATETIME", "MAP"}
    THEN graph_type ELSE "STRING"

\* any(fk.column == column.name for fk in table.foreign_keys)
IsFkColumn(table, column_name) ==
    \E i \in DOMAIN table.foreign_keys : table.foreign_keys[i].column = column_name

\* lines 226-250: the properties and the primary key the column loop leaves
RECURSIVE ColumnsToProperties(_, _, _)
ColumnsToProperties(table, label, c) ==
    IF c > Len(table.columns) THEN label
    ELSE LET column == table.columns[c]
             prop_name == sanitize_property_name(column.name)
             in_pk == table.primary_key.present
                      /\ column.name \in Range(table.primary_key.columns)
         IN  ColumnsToProperties(
                 table,
                 IF IsFkColumn(table, column.name) THEN label
                 ELSE [label EXCEPT
                         !.primary_key = IF in_pk THEN prop_name ELSE @,
                         !.properties = Append(@,
                             Property(prop_name, get_property_type(column.data_type),
                                      ~column.is_nullable, in_pk, column.name))],
                 c + 1)

\* lines 253-257: node_label.indexes, without duplicates, in index and column order
RECURSIVE AppendNew(_, _)
AppendNew(list, items) ==
    IF items = <<>> THEN list
    ELSE AppendNew(IF Head(items) \in Range(list) THEN list ELSE Append(list, Head(items)),
                   Tail(items))

RECURSIVE IndexNames(_, _, _)
IndexNames(table, list, i) ==
    IF i > Len(table.indexes) THEN list
    ELSE IndexNames(table,
                    AppendNew(list, [k \in DOMAIN table.indexes[i].columns |->
                                       sanitize_property_name(table.indexes[i].columns[k])]),
                    i + 1)

\* the label's primary key taken from the table's key whatever the column's
\* use in a foreign key (a variant)
table_to_node_label_with_key_of_table(table) ==
    LET l0 == NodeLabel(sanitize_label(table.name), <<>>, table.name, NoneS, <<>>)
        l1 == ColumnsToProperties(table, l0, 1)
    IN  [l1 EXCEPT !.indexes = IndexNames(table, <<>>, 1),
                   !.primary_key = IF table.primary_key.present
                                   THEN sanitize_property_name(table.primary_key.columns[1])
                                   ELSE @]

\* _table_to_node_label
table_to_node_label(table) ==
    LET l0 == NodeLabel(sanitize_label(table.name), <<>>, table.name, NoneS, <<>>)
        l1 == ColumnsToProperties(table, l0, 1)
    IN  [l1 EXCEPT !.indexes = IndexNames(table, <<>>, 1)]

\* _foreign_key_to_relationship
foreign_key_to_relationship(table, fk) ==
    RelationshipType(create_relationship_type_name(table.name, fk.referenced_table),
                     sanitize_label(table.name), sanitize_label(fk.referenced_table),
                     <<>>, fk.name, NoneS)

\* _junction_table_to_relationship, for a table with two foreign keys
junction_table_to_relationship(table) ==
    LET fk1 == table.foreign_keys[1]
        fk2 == table.foreign_keys[2]
        cols == SelectSeq(table.columns, LAMBDA c : c.name \notin {fk1.column, fk2.column})
    IN  RelationshipType(upper(sanitize_label(table.name)),
                         sanitize_label(fk1.referenced_table),
                         sanitize_label(fk2.referenced_table),
                         [i \in DOMAIN cols |->
                            Property(sanitize_property_name(cols[i].name),
                                     get_property_type(cols[i].data_type),
                                     ~cols[i].is_nullable, FALSE, cols[i].name)],
                         NoneS, table.name)

RECURSIVE AddNodeLabels(_, _, _)
AddNodeLabels(g, tables, t) ==
    IF t > Len(tables) THEN g
    ELSE AddNodeLabels(add_node_label(g, table_to_node_label(tables[t])), tables, t + 1)

\* lines 106-110: the relationship types of the foreign keys of the entity
\* tables, in table and foreign-key order
RECURSIVE ForeignKeyRelationships(_, _)
ForeignKeyRelationships(tables, t) ==
    IF t > Len(tables) THEN <<>>
    ELSE [f \in DOMAIN tables[t].foreign_keys |->
             foreign_key_to_relationship(tables[t], tables[t].foreign_keys[f])]
         \o ForeignKeyRelationships(tables, t + 1)

\* lines 113-117: the relationship types of the junction tables, in table order
JunctionRelationships(tables) ==
    LET js == SelectSeq(get_junction_tables(tables), LAMBDA j : Len(j.foreign_keys) = 2)
    IN  [i \in DOMAIN js |-> junction_table_to_relationship(js[i])]

\* every relationship type _transform_from_schema hands to add_relationship_type
SchemaRelationshipTypes(tables) ==
    ForeignKeyRelationships(get_entity_tables(tables), 1) \o JunctionRelationships(tables)

RECURSIVE AddRelationshipTypes(_, _)
AddRelationshipTypes(g, rel_types) ==
    IF rel_types = <<>> THEN g
    ELSE AddRelationshipTypes(add_relationship_type(g, Head(rel_types)), Tail(rel_types))

\* _transform_from_schema: never raises
transform_from_schema(g, tables) ==
    [gm |-> AddRelationshipTypes(AddNodeLabels(g, get_entity_tables(tables), 1),
                                 SchemaRelationshipTypes(tables)),
     raised |-> "no"]

\* the keywords of the constructor calls of the conceptual path
\* (lines 152-157 and 199-204; lines 179-185)
ConceptualPropertyKeywords == {"name", "property_type", "is_required", "source_column"}
ConceptualEdgeKeywords == {"name", "from_node", "to_node", "cardinality", "semantics"}

\* lines 146-158 / 193-205: the properties of the attributes that are columns of
\* the table; raised when a Property constructor call is reached and raises
AttributesToProperties(table, attributes) ==
    LET found == SelectSeq(attributes, LAMBDA a : HasColumn(table, a)) IN
    IF found # <<>>
       /\ CtorRaises(ConceptualPropertyKeywords, PropertyFields, PropertyRequired)
    THEN [raised |-> "TypeError", properties |-> <<>>]
    ELSE [raised |-> "no",
          properties |-> [i \in DOMAIN found |->
              Property(sanitize_property_name(found[i]),
                       get_property_type(get_column(table, found[i]).data_type),
                       ~get_column(table, found[i]).is_nullable, FALSE, found[i])]]

\* _conceptual_entity_to_node
conceptual_entity_to_node(t, tables, entity) ==
    LET l0 == NodeLabel(sanitize_label(entity.name), <<>>, entity.source_table, NoneS, <<>>)
        ti == TableIndex(tables, entity.source_table)
    IN  IF ~t.has_schema \/ ti = 0 THEN [raised |-> "no", label |-> l0]
        ELSE LET ps == AttributesToProperties(tables[ti], entity.attributes) IN
             [raised |-> ps.raised,
              label |-> [l0 EXCEPT
                  !.properties = ps.properties,
                  !.primary_key = IF entity.key_attributes # <<>>
                                  THEN sanitize_property_name(entity.key_attributes[1])
                                  ELSE @]]

\* _conceptual_relationship_to_edge: the RelationshipType constructor call of
\* lines 179-185 comes first
conceptual_relationship_to_edge(t, tables, relationship) ==
    LET ji == TableIndex(tables, relationship.source_junction_table)
        ps == IF relationship.attributes # <<>> /\ t.has_schema
                 /\ Truthy(relationship.source_junction_table) /\ ji # 0
              THEN AttributesToProperties(tables[ji], relationship.attributes)
              ELSE [raised |-> "no", properties |-> <<>>]
    IN  IF CtorRaises(ConceptualEdgeKeywords, RelationshipTypeFields,
                      RelationshipTypeRequired)
        THEN [raised |-> "TypeError", rel_type |-> RelationshipType(<<>>, <<>>, <<>>, <<>>, NoneS, NoneS)]
        ELSE [raised |-> ps.raised,
              rel_type |-> RelationshipType(relationship.name,
                                            sanitize_label(relationship.source_entity),
                                            sanitize_label(relationship.target_entity),
                                            ps.properties, NoneS, NoneS)]

\* lines 74-76: stops at the first entity whose conversion raises
RECURSIVE EntitiesToNodes(_, _, _, _)
EntitiesToNodes(t, tables, r, entities) ==
    IF entities = <<>> \/ r.raised # "no" THEN r
    ELSE LET n == conceptual_entity_to_node(t, tables, Head(entities)) IN
         EntitiesToNodes(t, tables,
                         IF n.raised # "no" THEN [r EXCEPT !.raised = n.raised]
                         ELSE [r EXCEPT !.gm = add_node_label(@, n.label)],
                         Tail(entities))

\* lines 81-84: stops at the first relationship whose conversion raises
RECURSIVE RelationshipsToEdges(_, _, _, _)
RelationshipsToEdges(t, tables, r, relationships) ==
    IF relationships = <<>> \/ r.raised # "no" THEN r
    ELSE LET e == conceptual_relationship_to_edge(t, tables, Head(relationships)) IN
         RelationshipsToEdges(t, tables,
                              IF e.raised # "no" THEN [r EXCEPT !.raised = e.raised]
                              ELSE [r EXCEPT !.gm = add_relationship_type(@, e.rel_type)],
                              Tail(relationships))

\* _transform_from_conceptual
transform_from_conceptual(t, g, tables, model) ==
    RelationshipsToEdges(t, tables,
        EntitiesToNodes(t, tables, [gm |-> g, raised |-> "no"], model.entities),
        model.relationships)

\* transform(): the graph model it leaves and what it raised
transform(t, g, tables, model) ==
    IF t.has_cm THEN transform_from_conceptual(t, g, tables, model)
    ELSE IF t.has_schema THEN transform_from_schema(g, tables)
    ELSE [gm |-> g, raised |-> "ValueError"]

\* Row values. v is the text of the value: the digits of an int, the characters
\* of a str, the ISO text of a date object.
NoneV == [kind |-> "None", v |-> <<>>]
IntV(digits) == [kind |-> "int", v |-> digits]
StrV(chars) == [kind |-> "str", v |-> chars]
DateV(iso) == [kind |-> "date", v |-> iso]

\* str(value)
str(value) == StrV(value.v)

\* json.loads(text) on the documents null, true, false, {}, [] and the
\* unsigned integers; any other text of the model's rows is not JSON
IsJsonInt(text) ==
    /\ text # <<>>
    /\ \A i \in DOMAIN text : text[i] \in DigitSet
    /\ (Len(text) > 1 => text[1] # "0")

JsonParses(text) ==
    \/ text \in {<<"n","u","l","l">>, <<"t","r","u","e">>, <<"f","a","l","s","e">>,
                 <<"{","}">>, <<"[","]">>}
    \/ IsJsonInt(text)

json_loads(text) ==
    IF text = <<"n","u","l","l">> THEN NoneV
    ELSE IF text = <<"t","r","u","e">> THEN [kind |-> "bool", v |-> <<"T","r","u","e">>]
    ELSE IF text = <<"f","a","l","s","e">> THEN [kind |-> "bool", v |-> <<"F","a","l","s","e">>]
    ELSE IF text = <<"{","}">> THEN [kind |-> "dict", v |-> text]
    ELSE IF text = <<"[","]">> THEN [kind |-> "list", v |-> text]
    ELSE IntV(text)

\* _convert_value
convert_value(value, sql_type) ==
    IF value = NoneV THEN NoneV
    ELSE IF Contains(lower(sql_type), <<"d","a","t","e">>)
            \/ Contains(lower(sql_type), <<"t","i","m","e">>)
         THEN str(value)
    ELSE IF Contains(lower(sql_type), <<"j","s","o","n">>) /\ value.kind = "str"
         THEN IF JsonParses(value.v) THEN json_loads(value.v) ELSE value
    ELSE value

\* row_data.get(name): a row is a sequence of [key, value] entries with distinct keys
RowGet(row_data, name) ==
    IF \E i \in DOMAIN row_data : row_data[i].key = name
    THEN row_data[CHOOSE i \in DOMAIN row_data : row_data[i].key = name].value
    ELSE NoneV

\* properties[key] = value
DictPut(d, key, value) ==
    IF \E i \in DOMAIN d : d[i].key = key
    THEN [i \in DOMAIN d |-> IF d[i].key = key THEN [key |-> key, value |-> value] ELSE d[i]]
    ELSE Append(d, [key |-> key, value |-> value])

\* lines 377-387
RECURSIVE RowProperties(_, _, _, _)
RowProperties(table, row_data, properties, c) ==
    IF c > Len(table.columns) THEN properties
    ELSE LET column == table.columns[c] IN
         RowProperties(table, row_data,
             IF IsFkColumn(table, column.name) THEN properties
             ELSE DictPut(properties, sanitize_property_name(column.name),
                          convert_value(RowGet(row_data, column.name), column.data_type)),
             c + 1)

\* transform_row_to_node without the check of the node label
transform_row_to_node_without_label_check(t, g, tables, table_name, row_data) ==
    IF ~t.has_schema \/ TableIndex(tables, table_name) = 0
    THEN [raised |-> "AttributeError", properties |-> <<>>]
    ELSE [raised |-> "no",
          properties |-> RowProperties(tables[TableIndex(tables, table_name)],
                                       row_data, <<>>, 1)]

\* transform_row_to_node: what it raised and the dict it returned
transform_row_to_node(t, g, tables, table_name, row_data) ==
    IF LabelIndex(g, sanitize_label(table_name)) = 0
    THEN [raised |-> "ValueError", properties |-> <<>>]
    ELSE IF ~t.has_schema \/ TableIndex(tables, table_name) = 0
    THEN [raised |-> "AttributeError", properties |-> <<>>]
    ELSE [raised |-> "no",
          properties |-> RowProperties(tables[TableIndex(tables, table_name)],
                                       row_data, <<>>, 1)]

-----------------------------------------------------------------------------
(* The schemas and rows the model is run on.                               *)

\* names of tables, columns, SQL types and delete rules
s_students == <<"s","t","u","d","e","n","t","s">>
s_courses == <<"c","o","u","r","s","e","s">>
s_departments == <<"d","e","p","a","r","t","m","e","n","t","s">>
s_enrollments == <<"e","n","r","o","l","l","m","e","n","t","s">>
s_class_list == <<"c","l","a","s","s"," ","l","i","s","t">>
s_person == <<"p","e","r","s","o","n">>
s_employee == <<"e","m","p","l","o","y","e","e">>
s_manager == <<"m","a","n","a","g","e","r">>
s_notes == <<"n","o","t","e","s">>
s_logs == <<"l","o","g","s">>
s_audit == <<"a","u","d","i","t">>
s_items == <<"i","t","e","m","s">>
s_owner_id == <<"o","w","n","e","r","_","i","d">>
s_order_ref == <<"o","r","d","e","r","_","r","e","f">>
s_paidrent_id == <<"p","a","i","d","r","e","n","t","_","i","d">>
s_tbl_users == <<"t","b","l","_","u","s","e","r","s">>
s_tbl_orders == <<"t","b","l","_","o","r","d","e","r","s">>
s_ledger == <<"l","e","d","g","e","r">>
s_docs == <<"d","o","c","s">>
s_grades == <<"g","r","a","d","e","s">>
s_assistant == <<"a","s","s","i","s","t","a","n","t">>
s_terms == <<"t","e","r","m","s">>
s_ghosts == <<"g","h","o","s","t","s">>
s_id == <<"i","d">>
s_name == <<"n","a","m","e">>
s_born == <<"b","o","r","n">>
s_meta == <<"m","e","t","a">>
s_title == <<"t","i","t","l","e">>
s_student_id == <<"s","t","u","d","e","n","t","_","i","d">>
s_course_id == <<"c","o","u","r","s","e","_","i","d">>
s_department_id == <<"d","e","p","a","r","t","m","e","n","t","_","i","d">>
s_enrollment_date == <<"e","n","r","o","l","l","m","e","n","t","_","d","a","t","e">>
s_grade == <<"g","r","a","d","e">>
s_salary == <<"s","a","l","a","r","y">>
s_body == <<"b","o","d","y">>
s_at == <<"a","t">>
s_due_date == <<"d","u","e","_","d","a","t","e">>
s_due_date_sp == <<"d","u","e"," ","d","a","t","e">>
s_student_name == <<"s","t","u","d","e","n","t","_","n","a","m","e">>
s_term == <<"t","e","r","m">>
s_person_id == <<"p","e","r","s","o","n","_","i","d">>
s_tutor_id == <<"t","u","t","o","r","_","i","d">>
s_int == <<"i","n","t">>
s_varchar == <<"v","a","r","c","h","a","r">>
s_date == <<"d","a","t","e">>
s_timestamp == <<"t","i","m","e","s","t","a","m","p">>
s_json == <<"J","S","O","N">>
s_decimal == <<"d","e","c","i","m","a","l","(","1","0",",","2",")">>
s_CASCADE == <<"C","A","S","C","A","D","E">>
s_cascade == <<"c","a","s","c","a","d","e">>
s_RESTRICT == <<"R","E","S","T","R","I","C","T">>

\* foreign-key names: fk_<table>_<referenced table>
FkName(table_name, referenced_table) ==
    <<"f","k","_">> \o table_name \o <<"_">> \o referenced_table

Fk(table_name, column, referenced_table, referenced_column, on_delete) ==
    ForeignKey(FkName(table_name, referenced_table), column,
               referenced_table, referenced_column, on_delete)

t_students ==
    Table(s_students,
          << Column(s_id, s_int, FALSE), Column(s_name, s_varchar, FALSE),
             Column(s_born, s_date, TRUE), Column(s_meta, s_json, TRUE) >>,
          PK(<<s_id>>), <<>>, << Index(<<s_name>>, FALSE) >>)

t_departments ==
    Table(s_departments,
          << Column(s_id, s_int, FALSE), Column(s_name, s_varchar, FALSE) >>,
          PK(<<s_id>>), <<>>, <<>>)

\* courses.department_id -> departments.id in three shapes: mandatory without a
\* rule; optional under a one-column unique index; optional with a cascade rule
\* under a two-column unique index
Courses(nullable, on_delete, indexes) ==
    Table(s_courses,
          << Column(s_id, s_int, FALSE), Column(s_department_id, s_int, nullable),
             Column(s_title, s_varchar, TRUE) >>,
          PK(<<s_id>>),
          << Fk(s_courses, s_department_id, s_departments, s_id, on_delete) >>,
          indexes)

t_courses == Courses(FALSE, NoneS, <<>>)
t_courses_unique == Courses(TRUE, s_RESTRICT, << Index(<<s_department_id>>, TRUE) >>)
t_courses_cascade ==
    Courses(TRUE, s_cascade,
            << Index(<<s_department_id, s_title>>, TRUE), Index(<<s_department_id>>, FALSE) >>)

\* the junction table of the end-to-end scenario
t_enrollments ==
    Table(s_enrollments,
          << Column(s_student_id, s_int, FALSE), Column(s_course_id, s_int, FALSE),
             Column(s_enrollment_date, s_date, TRUE), Column(s_grade, s_varchar, TRUE) >>,
          PK(<<s_student_id, s_course_id>>),
          << Fk(s_enrollments, s_student_id, s_students, s_id, s_CASCADE),
             Fk(s_enrollments, s_course_id, s_courses, s_id, s_CASCADE) >>,
          <<>>)

\* a junction table whose name holds a space and whose key is one of its two
\* foreign-key columns
t_class_list ==
    Table(s_class_list,
          << Column(s_course_id, s_int, FALSE), Column(s_student_id, s_int, FALSE),
             Column(s_term, s_varchar, TRUE) >>,
          PK(<<s_course_id>>),
          << Fk(s_class_list, s_course_id, s_courses, s_id, NoneS),
             Fk(s_class_list, s_student_id, s_students, s_id, NoneS) >>,
          <<>>)

t_person ==
    Table(s_person,
          << Column(s_id, s_int, FALSE), Column(s_name, s_varchar, TRUE) >>,
          PK(<<s_id>>), <<>>, <<>>)

\* class-table inheritance: employee IS-A person, with a second foreign key to
\* person; the key column is one of the two foreign-key columns
t_employee ==
    Table(s_employee,
          << Column(s_id, s_int, FALSE), Column(s_person_id, s_int, FALSE),
             Column(s_salary, s_decimal, TRUE) >>,
          PK(<<s_id>>),
          << Fk(s_employee, s_id, s_person, s_id, s_CASCADE),
             ForeignKey(FkName(s_employee, s_person_id), s_person_id,
                        s_person, s_id, s_CASCADE) >>,
          <<>>)

\* manager IS-A employee
t_manager ==
    Table(s_manager,
          << Column(s_id, s_int, FALSE), Column(s_title, s_varchar, TRUE) >>,
          PK(<<s_id>>),
          << Fk(s_manager, s_id, s_employee, s_id, NoneS) >>,
          <<>>)

\* a foreign key that references a column of the junction table and whose
\* local column is not among the columns of its table
t_notes ==
    Table(s_notes,
          << Column(s_id, s_int, FALSE), Column(s_body, s_varchar, TRUE) >>,
          PK(<<s_id>>),
          << Fk(s_notes, s_student_id, s_enrollments, s_student_id, NoneS) >>,
          <<>>)

\* two foreign keys and no primary key
t_logs ==
    Table(s_logs,
          << Column(s_student_id, s_int, TRUE), Column(s_course_id, s_int, FALSE),
             Column(s_at, s_timestamp, TRUE) >>,
          NoPK,
          << Fk(s_logs, s_student_id, s_students, s_id, NoneS),
             Fk(s_logs, s_course_id, s_courses, s_id, NoneS) >>,
          <<>>)

\* a primary-key column that references a table without a primary key
t_audit ==
    Table(s_audit,
          << Column(s_student_id, s_int, FALSE), Column(s_body, s_varchar, TRUE) >>,
          PK(<<s_student_id>>),
          << Fk(s_audit, s_student_id, s_logs, s_student_id, NoneS) >>,
          <<>>)

\* names for the naming pass: a column and a referenced table that match two
\* keywords, a referenced table with the prefix tbl and no keyword, and a
\* column in which a keyword appears once "id" is taken out
t_items ==
    Table(s_items,
          << Column(s_id, s_int, FALSE), Column(s_owner_id, s_int, TRUE),
             Column(s_order_ref, s_int, TRUE), Column(s_paidrent_id, s_int, TRUE) >>,
          PK(<<s_id>>),
          << ForeignKey(FkName(s_items, s_owner_id), s_owner_id, s_tbl_users, s_id, NoneS),
             ForeignKey(FkName(s_items, s_order_ref), s_order_ref, s_tbl_orders, s_id, NoneS),
             ForeignKey(FkName(s_items, s_paidrent_id), s_paidrent_id, s_ledger, s_id, NoneS) >>,
          <<>>)

\* two column names with the same sanitized property name
t_docs ==
    Table(s_docs,
          << Column(s_id, s_int, FALSE), Column(s_due_date, s_date, TRUE),
             Column(s_due_date_sp, s_timestamp, TRUE), Column(s_meta, s_json, TRUE) >>,
          PK(<<s_id>>), <<>>, << Index(<<s_due_date>>, FALSE) >>)

\* a composite primary key whose columns are foreign-key columns that reference
\* no primary key (students.name) and a table outside the schema (terms), and
\* a second foreign key to students
t_grades ==
    Table(s_grades,
          << Column(s_student_name, s_varchar, FALSE), Column(s_term, s_varchar, FALSE),
             Column(s_tutor_id, s_int, TRUE), Column(s_grade, s_varchar, TRUE) >>,
          PK(<<s_student_name, s_term>>),
          << Fk(s_grades, s_student_name, s_students, s_name, NoneS),
             Fk(s_grades, s_term, s_terms, s_id, s_CASCADE),
             ForeignKey(FkName(s_grades, s_tutor_id), s_tutor_id, s_students, s_id, NoneS) >>,
          <<>>)

\* an entity table with inheritance foreign keys to two tables and a third,
\* mandatory, cascading foreign key
t_assistant ==
    Table(s_assistant,
          << Column(s_student_id, s_int, FALSE), Column(s_person_id, s_int, FALSE),
             Column(s_department_id, s_int, FALSE), Column(s_term, s_varchar, FALSE) >>,
          PK(<<s_student_id, s_person_id, s_term>>),
          << Fk(s_assistant, s_student_id, s_students, s_id, NoneS),
             Fk(s_assistant, s_person_id, s_person, s_id, NoneS),
             Fk(s_assistant, s_department_id, s_departments, s_id, s_CASCADE) >>,
          <<>>)

TablePool ==
    { t_students, t_departments, t_courses, t_courses_unique, t_courses_cascade,
      t_enrollments, t_class_list, t_person, t_employee, t_manager, t_notes,
      t_logs, t_docs, t_grades, t_assistant, t_audit, t_items }

\* the number of tables of a schema
MaxTables == 3

\* the number of tables of a schema whose rows are converted
MaxRowTables == 2

\* DatabaseSchema.add_table keys the tables by name: the names are distinct
Schemas(max) ==
    UNION { { s \in [1..n -> TablePool] :
                \A i, j \in 1..n : i # j => s[i].name # s[j].name } : n \in 1..max }

Entry(key, value) == [key |-> key, value |-> value]

\* the rows handed to transform_row_to_node
RowPool ==
    { << Entry(s_id, IntV(<<"1">>)), Entry(s_name, StrV(<<"A","l">>)),
         Entry(s_born, DateV(<<"2","0","0","1","-","0","2","-","0","3">>)),
         Entry(s_meta, StrV(<<"{","}">>)),
         Entry(s_due_date, DateV(<<"2","0","2","6","-","0","1","-","0","1">>)),
         Entry(s_due_date_sp, StrV(<<"n","o","o","n">>)),
         Entry(s_department_id, IntV(<<"7">>)), Entry(s_title, StrV(<<"T">>)) >>,
      << Entry(s_id, IntV(<<"2">>)), Entry(s_born, NoneV),
         Entry(s_meta, StrV(<<"{","x">>)), Entry(s_salary, IntV(<<"9">>)),
         Entry(s_at, IntV(<<"5">>)), Entry(s_body, StrV(<<"4","2">>)) >>,
      << Entry(s_meta, IntV(<<"3">>)), Entry(s_name, StrV(<<"n","u","l","l">>)),
         Entry(s_student_name, StrV(<<"A","l">>)), Entry(s_term, NoneV) >> }

\* the table names handed to transform_row_to_node: the schema's and one more
RowTables(tables) == {tables[i].name : i \in DOMAIN tables} \cup {s_ghosts}

\* no call yet; a call records the transformer's state at the call (on)
NoRowCall ==
    [status |-> "none", on |-> "none", table_name |-> NoneS, row |-> <<>>,
     properties |-> <<>>]
NoTransformer == [has_schema |-> FALSE, has_cm |-> FALSE]

\* no second SemanticEnricher
NoTwin == [schema |-> <<>>, cm |-> EmptyConceptualModel, phase |-> "none"]

-----------------------------------------------------------------------------
(* The pipeline: a schema is loaded, an enricher is built on it and run    *)
(* pass by pass, a transformer is built, run, and asked to convert rows.   *)

\* the state after DatabaseSchema and SemanticEnricher.__init__
InitOn(schemas) ==
    /\ schema \in schemas
    /\ cm = EmptyConceptualModel
    /\ phase = "schema"
    /\ tr = NoTransformer
    /\ gm = EmptyGraphModel
    /\ tstate = "none"
    /\ rowcall = NoRowCall
    /\ added = <<>>
    /\ twin = NoTwin

\* one pass of enrich(), from phase `from` to phase `to`; st is what the pass
\* leaves of the schema and the conceptual model
Pass(from, to, st) ==
    /\ phase = from
    /\ tstate = "none"
    /\ schema' = st.schema
    /\ cm' = st.cm
    /\ phase' = to
    /\ UNCHANGED <<tr, gm, tstate, rowcall, added, twin>>

\* the schema and the conceptual model the enricher works on
Enricher == [schema |-> schema, cm |-> cm]

DetectInheritance ==
    Pass("schema", "inheritance", detect_inheritance_hierarchies(Enricher))
DetectWeakEntities ==
    Pass("inheritance", "weak", detect_weak_entities_and_aggregation(Enricher))
InferCardinalities ==
    Pass("weak", "cardinality", infer_relationship_cardinality(Enricher))
GenerateNames ==
    Pass("cardinality", "names", generate_relationship_names(Enricher))
CreateEntities ==
    Pass("names", "entities", create_conceptual_entities(Enricher))
CreateRelationships ==
    Pass("entities", "enriched", create_conceptual_relationships(Enricher))

\* GraphTransformer(db_schema, conceptual_model): a conceptual model is the
\* return value of enrich()
Construct(has_schema, has_cm) ==
    /\ tstate = "none"
    /\ phase \in {"schema", "enriched"}
    /\ has_cm => phase = "enriched"
    /\ phase = "schema" => has_schema
    /\ tr' = [has_schema |-> has_schema, has_cm |-> has_cm]
    /\ gm' = EmptyGraphModel
    /\ tstate' = "constructed"
    /\ UNCHANGED <<schema, cm, phase, rowcall, added, twin>>

\* transform() that writes the name of each relationship type back onto its
\* foreign key (a variant)
TransformAnnotatingSchema ==
    /\ tstate = "constructed"
    /\ LET r == transform(tr, gm, schema, cm) IN
       /\ gm' = r.gm
       /\ tstate' = IF r.raised = "no" THEN "returned" ELSE r.raised
       /\ added' = IF ~tr.has_cm /\ tr.has_schema
                   THEN SchemaRelationshipTypes(schema) ELSE added
    /\ schema' = [t \in DOMAIN schema |->
                    [schema[t] EXCEPT !.foreign_keys =
                        [f \in DOMAIN schema[t].foreign_keys |->
                            [schema[t].foreign_keys[f] EXCEPT !.relationship_name =
                                create_relationship_type_name(
                                    schema[t].name,
                                    schema[t].foreign_keys[f].referenced_table)]]]]
    /\ UNCHANGED <<cm, phase, tr, rowcall, twin>>

\* GraphTransformer.transform()
Transform ==
    /\ tstate = "constructed"
    /\ LET r == transform(tr, gm, schema, cm) IN
       /\ gm' = r.gm
       /\ tstate' = IF r.raised = "no" THEN "returned" ELSE r.raised
       /\ added' = IF ~tr.has_cm /\ tr.has_schema
                   THEN SchemaRelationshipTypes(schema) ELSE added
    /\ UNCHANGED <<schema, cm, phase, tr, rowcall, twin>>

\* GraphTransformer.transform_row_to_node(table_name, row_data); the call changes
\* no state of the program, so the first call of a run stands for every call
TransformRowToNode(table_name, row_data) ==
    /\ tstate \in {"constructed", "returned"}
    /\ rowcall = NoRowCall
    /\ LET r == transform_row_to_node(tr, gm, schema, table_name, row_data) IN
       rowcall' = [status |-> IF r.raised = "no" THEN "returned" ELSE r.raised,
                   on |-> tstate, table_name |-> table_name, row |-> row_data,
                   properties |-> r.properties]
    /\ UNCHANGED <<schema, cm, phase, tr, gm, tstate, added, twin>>

Init == InitOn(Schemas(MaxTables))

\* the pipeline up to transform()
Next ==
    \/ DetectInheritance
    \/ DetectWeakEntities
    \/ InferCardinalities
    \/ GenerateNames
    \/ CreateEntities
    \/ CreateRelationships
    \/ \E has_schema, has_cm \in BOOLEAN : Construct(has_schema, has_cm)
    \/ Transform

Spec == Init /\ [][Next]_vars


\* enrich() alone: the six passes run one after the other in the body of
\* enrich() (lines 55-71), so a pass that can run does run
NextEnrich ==
    \/ DetectInheritance
    \/ DetectWeakEntities
    \/ InferCardinalities
    \/ GenerateNames
    \/ CreateEntities
    \/ CreateRelationships

\* the order of the calls in enrich()
NextPhase ==
    [p \in {"schema", "inheritance", "weak", "cardinality", "names", "entities"} |->
        CASE p = "schema" -> "inheritance"
          [] p = "inheritance" -> "weak"
          [] p = "weak" -> "cardinality"
          [] p = "cardinality" -> "names"
          [] p = "names" -> "entities"
          [] p = "entities" -> "enriched"]

\* enrich() moves on to its next call: the step every pass takes on phase, and
\* in a run of the passes the step only a pass takes
EnrichAdvances ==
    /\ tstate = "none"
    /\ phase \in DOMAIN NextPhase
    /\ phase' = NextPhase[phase]

\* enrich() is straight-line code (lines 55-71): after a pass returns the next
\* one is called, so the run does not stop before the last pass
SpecEnrich == Init /\ [][NextEnrich]_vars /\ WF_phase(EnrichAdvances)


\* two enrichers, each on a schema of its own; the two schemas are built apart
\* and have the same tables, columns, keys and indexes, annotations unset
MaxTwinTables == 2

InitTwin ==
    /\ schema \in Schemas(MaxTwinTables)
    /\ cm = EmptyConceptualModel
    /\ phase = "schema"
    /\ tr = NoTransformer
    /\ gm = EmptyGraphModel
    /\ tstate = "none"
    /\ rowcall = NoRowCall
    /\ added = <<>>
    /\ twin = [schema |-> schema, cm |-> EmptyConceptualModel, phase |-> "schema"]

\* a second enricher that works on the conceptual model of the first (a variant)
TwinEnricherSharingModel == [schema |-> twin.schema, cm |-> cm]

\* the schema and the conceptual model of the second enricher: __init__ builds
\* a ConceptualModel of its own, whose lists and dicts come from default_factory
TwinEnricher == [schema |-> twin.schema, cm |-> twin.cm]

\* one pass of the second enricher's enrich()
TwinPass(from, to, st) ==
    /\ twin.phase = from
    /\ twin' = [schema |-> st.schema, cm |-> st.cm, phase |-> to]
    /\ UNCHANGED <<schema, cm, phase, tr, gm, tstate, rowcall, added>>

TwinDetectInheritance ==
    TwinPass("schema", "inheritance", detect_inheritance_hierarchies(TwinEnricher))
TwinDetectWeakEntities ==
    TwinPass("inheritance", "weak", detect_weak_entities_and_aggregation(TwinEnricher))
TwinInferCardinalities ==
    TwinPass("weak", "cardinality", infer_relationship_cardinality(TwinEnricher))
TwinGenerateNames ==
    TwinPass("cardinality", "names", generate_relationship_names(TwinEnricher))
TwinCreateEntities ==
    TwinPass("names", "entities", create_conceptual_entities(TwinEnricher))
TwinCreateRelationships ==
    TwinPass("entities", "enriched", create_conceptual_relationships(TwinEnricher))

\* the two runs of enrich(), their passes in any interleaving
NextTwin ==
    \/ DetectInheritance
    \/ DetectWeakEntities
    \/ InferCardinalities
    \/ GenerateNames
    \/ CreateEntities
    \/ CreateRelationships
    \/ TwinDetectInheritance
    \/ TwinDetectWeakEntities
    \/ TwinInferCardinalities
    \/ TwinGenerateNames
    \/ TwinCreateEntities
    \/ TwinCreateRelationships

SpecTwin == InitTwin /\ [][NextTwin]_vars
\* the pipeline with row conversion, on the smaller schemas
InitRows == InitOn(Schemas(MaxRowTables))

NextRows ==
    \/ DetectInheritance
    \/ DetectWeakEntities
    \/ InferCardinalities
    \/ GenerateNames
    \/ CreateEntities
    \/ CreateRelationships
    \/ \E has_schema, has_cm \in BOOLEAN : Construct(has_schema, has_cm)
    \/ Transform
    \/ \E table_name \in RowTables(schema), row_data \in RowPool :
          TransformRowToNode(table_name, row_data)

SpecRows == InitRows /\ [][NextRows]_vars

-----------------------------------------------------------------------------
(* GraphModel used on its own: a caller builds relationship types and adds *)
(* them one by one.                                                         *)

s_A == <<"A">>
s_A_B == <<"A", "_", "B">>
s_B_C == <<"B", "_", "C">>
s_C == <<"C">>
s_D == <<"D">>
s_fk_one == <<"f", "k", "1">>
s_fk_two == <<"f", "k", "2">>

\* the relationship types handed to add_relationship_type
RelationshipTypePool ==
    { RelationshipType(name, from_label, s_D, <<>>, fk_name, NoneS) :
        name \in {s_C, s_B_C}, from_label \in {s_A, s_A_B}, fk_name \in {s_fk_one, s_fk_two} }

\* the number of add_relationship_type calls of a run
MaxAdds == 3

\* the state after GraphModel(name, source_schema_name)
InitGM ==
    /\ schema = <<>>
    /\ cm = EmptyConceptualModel
    /\ phase = "graph_model"
    /\ tr = NoTransformer
    /\ gm = EmptyGraphModel
    /\ tstate = "none"
    /\ rowcall = NoRowCall
    /\ added = <<>>
    /\ twin = NoTwin

\* GraphModel.add_relationship_type(rel_type); added records the arguments
AddRelationshipType(rel_type) ==
    /\ Len(added) < MaxAdds
    /\ gm' = add_relationship_type(gm, rel_type)
    /\ added' = Append(added, rel_type)
    /\ UNCHANGED <<schema, cm, phase, tr, tstate, rowcall, twin>>

NextGM == \E rel_type \in RelationshipTypePool : AddRelationshipType(rel_type)

SpecGM == InitGM /\ [][NextGM]_vars

-----------------------------------------------------------------------------
(* The type mapping on its own: a table of one column whose SQL type is    *)
(* drawn from a pool of type strings goes through the fallback transform(). *)

\* type names of the dialects, and type strings of no dialect
TypeWords ==
    { <<"i","n","t">>,
      <<"s","e","r","i","a","l">>,
      <<"b","i","g","s","e","r","i","a","l">>,
      <<"f","l","o","a","t">>,
      <<"d","o","u","b","l","e">>,
      <<"r","e","a","l">>,
      <<"d","e","c","i","m","a","l">>,
      <<"n","u","m","e","r","i","c">>,
      <<"b","o","o","l">>,
      <<"b","i","t">>,
      <<"d","a","t","e">>,
      <<"t","i","m","e">>,
      <<"t","i","m","e","s","t","a","m","p">>,
      <<"j","s","o","n">>,
      <<"t","e","x","t">>,
      <<"v","a","r","c","h","a","r">>,
      <<"b","l","o","b">>,
      <<"i","n","t","e","r","v","a","l">>,
      <<"p","o","i","n","t">>,
      <<"u","u","i","d">>,
      <<>> }

\* words put together in both orders, so that two families meet in one string
TypeWordsToPair ==
    { <<"i","n","t">>,
      <<"f","l","o","a","t">>,
      <<"b","i","t">>,
      <<"d","a","t","e">>,
      <<"t","i","m","e">>,
      <<"j","s","o","n">>,
      <<"t","e","x","t">> }

SqlTypes ==
    LET lower_case == TypeWords \cup { a \o b : a \in TypeWordsToPair, b \in TypeWordsToPair }
    IN  lower_case \cup { upper(w) : w \in lower_case } \cup { capitalize(w) : w \in TypeWords }

InitTypes ==
    InitOn({ << Table(s_docs, << Column(s_body, sql_type, TRUE) >>, NoPK, <<>>, <<>>) >> :
               sql_type \in SqlTypes })

NextTypes ==
    \/ Construct(TRUE, FALSE)
    \/ Transform

SpecTypes == InitTypes /\ [][NextTypes]_vars

-----------------------------------------------------------------------------
(* enrich() called a second time on the same SemanticEnricher: the passes   *)
(* run again on the schema the first call annotated and on the same         *)
(* conceptual model. twin keeps what the first call returned.               *)

EnrichAgain ==
    /\ phase = "enriched"
    /\ tstate = "none"
    /\ twin = NoTwin
    /\ twin' = [schema |-> schema, cm |-> cm, phase |-> "returned"]
    /\ phase' = "schema"
    /\ UNCHANGED <<schema, cm, tr, gm, tstate, rowcall, added>>

NextAgain ==
    \/ DetectInheritance
    \/ DetectWeakEntities
    \/ InferCardinalities
    \/ GenerateNames
    \/ CreateEntities
    \/ CreateRelationships
    \/ EnrichAgain

SpecAgain == Init /\ [][NextAgain]_vars

-----------------------------------------------------------------------------
(* Properties of enrich()                                                   *)

\* enrich() has returned
Enriched == phase = "enriched"

ColumnNames(table) == [i \in DOMAIN table.columns |-> table.columns[i].name]
FkColumns(table) == {table.foreign_keys[f].column : f \in DOMAIN table.foreign_keys}
FkNames(table) == {table.foreign_keys[f].name : f \in DOMAIN table.foreign_keys}
EntityNames == {cm.entities[e].name : e \in DOMAIN cm.entities}

\* exactly two foreign keys whose local columns cover the primary key
TwoFksCoverPk(table) ==
    /\ Len(table.foreign_keys) = 2
    /\ \A c \in Range(table.primary_key.columns) : c \in FkColumns(table)

\* the relationships built from junction table J
FromJunction(J) ==
    {i \in DOMAIN cm.relationships : cm.relationships[i].source_junction_table = J.name}

SpacesToUnderscores(s) == [i \in DOMAIN s |-> IF s[i] = " " THEN "_" ELSE s[i]]

HasSpace(s) == \E i \in DOMAIN s : s[i] = " "

\* what C1 says of a table J, for a given relationship name
JunctionOutcome(J, name) ==
    /\ J.name \notin EntityNames
    /\ Cardinality(FromJunction(J)) = 1
    /\ \A i \in FromJunction(J) :
          LET r == cm.relationships[i] IN
          /\ r.cardinality = "MANY_TO_MANY"
          /\ r.semantics = "ASSOCIATION"
          /\ r.name = name
          /\ r.source_entity = J.foreign_keys[1].referenced_table
          /\ r.target_entity = J.foreign_keys[2].referenced_table
          /\ r.attributes = SelectSeq(ColumnNames(J), LAMBDA c : c \notin FkColumns(J))
    /\ \A i \in DOMAIN cm.relationships :
          cm.relationships[i].source_foreign_key \notin FkNames(J)

\* C1 (as amended): after enrich(), every table J that has a primary key and
\* exactly two foreign keys whose local columns cover it is no entity and is
\* the source of exactly one relationship: MANY_TO_MANY, ASSOCIATION, named J's
\* name in upper case with every space replaced by an underscore, from the
\* table of J's first foreign key to the table of its second, with J's other
\* columns as attributes in column order; no relationship is built from J's
\* foreign keys.
C1_JunctionBecomesOneRelationship ==
    Enriched =>
        \A t \in DOMAIN schema :
            (schema[t].primary_key.present /\ TwoFksCoverPk(schema[t]))
                => JunctionOutcome(schema[t], upper(SpacesToUnderscores(schema[t].name)))

\* C1 witness: an enriched schema with a junction table whose name has a space
\* and which has a column besides its foreign-key columns
C1_JunctionWithSpaceEnriched ==
    /\ Enriched
    /\ \E t \in DOMAIN schema :
          /\ schema[t].primary_key.present /\ TwoFksCoverPk(schema[t])
          /\ HasSpace(schema[t].name)
          /\ \E i \in FromJunction(schema[t]) : cm.relationships[i].attributes # <<>>

\* C1 as stated: the same, the relationship being named J's name in upper case
C1_AsStated ==
    Enriched =>
        \A t \in DOMAIN schema :
            (schema[t].primary_key.present /\ TwoFksCoverPk(schema[t]))
                => JunctionOutcome(schema[t], upper(schema[t].name))

\* fk of table T is on a primary-key column of T and references a primary-key
\* column of a table of the schema
ReferencesPkFromPk(T, fk) ==
    /\ T.primary_key.present
    /\ fk.column \in Range(T.primary_key.columns)
    /\ \E r \in DOMAIN schema :
          /\ schema[r].name = fk.referenced_table
          /\ schema[r].primary_key.present
          /\ fk.referenced_column \in Range(schema[r].primary_key.columns)

\* the chains of inheritance_hierarchies that hold the name
ChainsWith(name) ==
    {c \in DOMAIN cm.inheritance_hierarchies : name \in Range(cm.inheritance_hierarchies[c])}

\* C2 (as stated): after enrich(), every table T with a foreign key from a
\* primary-key column of T to a primary-key column of an existing table is
\* is_subclass, the foreign key is is_inheritance, and T's name is in exactly
\* one chain, once, after the name of the referenced table.
C2_SubclassInExactlyOneChain ==
    Enriched =>
        \A t \in DOMAIN schema : \A f \in DOMAIN schema[t].foreign_keys :
            LET T == schema[t]
                fk == T.foreign_keys[f] IN
            ReferencesPkFromPk(T, fk) =>
                /\ T.is_subclass
                /\ fk.is_inheritance
                /\ Cardinality(ChainsWith(T.name)) = 1
                /\ \A c \in ChainsWith(T.name) :
                      LET chain == cm.inheritance_hierarchies[c] IN
                      /\ Cardinality({i \in DOMAIN chain : chain[i] = T.name}) = 1
                      /\ \E i, j \in DOMAIN chain :
                            i < j /\ chain[i] = fk.referenced_table /\ chain[j] = T.name

-----------------------------------------------------------------------------
(* Properties of transform() on the conceptual path                         *)

\* transform() was called on a transformer built on the conceptual model and
\* the schema it was enriched from, and is over
ConceptualTransformOver ==
    /\ tr.has_cm /\ tr.has_schema
    /\ tstate \notin {"none", "constructed"}

\* C3 (as stated): transform() on the conceptual path returns a graph model
\* with one RelationshipType per conceptual relationship, named the
\* relationship's name, between the sanitized source and target entity names,
\* a junction-sourced one having one property per relationship attribute.
C3_OneRelationshipTypePerRelationship ==
    (ConceptualTransformOver /\ cm.relationships # <<>>) =>
        /\ tstate = "returned"
        /\ \A i \in DOMAIN cm.relationships :
              LET r == cm.relationships[i] IN
              \E k \in DOMAIN gm.relationship_types :
                  LET rt == gm.relationship_types[k].value IN
                  /\ rt.name = r.name
                  /\ rt.from_label = sanitize_label(r.source_entity)
                  /\ rt.to_label = sanitize_label(r.target_entity)
                  /\ Truthy(r.source_junction_table)
                        => Len(rt.properties) = Len(r.attributes)

\* C4 (as stated): transform() on the conceptual path turns every entity into
\* exactly one NodeLabel: named the sanitized entity name, with the entity's
\* source table, one Property per attribute (type from the column's SQL type,
\* required iff the column is not nullable), and the sanitized first key
\* attribute as primary key.
C4_OneNodeLabelPerEntity ==
    ConceptualTransformOver =>
        /\ tstate = "returned"
        /\ \A e \in DOMAIN cm.entities :
              LET entity == cm.entities[e]
                  table == schema[TableIndex(schema, entity.source_table)]
                  labels == {k \in DOMAIN gm.node_labels :
                                gm.node_labels[k].name = sanitize_label(entity.name)} IN
              /\ Cardinality(labels) = 1
              /\ \A k \in labels :
                    LET label == gm.node_labels[k] IN
                    /\ label.source_table = entity.source_table
                    /\ Len(label.properties) = Len(entity.attributes)
                    /\ \A a \in DOMAIN entity.attributes :
                          LET column == get_column(table, entity.attributes[a]) IN
                          /\ label.properties[a].name
                                = sanitize_property_name(entity.attributes[a])
                          /\ label.properties[a].type = get_property_type(column.data_type)
                          /\ label.properties[a].is_required = ~column.is_nullable
                    /\ entity.key_attributes # <<>>
                          => label.primary_key
                                = sanitize_property_name(entity.key_attributes[1])

-----------------------------------------------------------------------------
(* Properties of the classification and cardinality passes                  *)

\* the relationships built from foreign key fk of table T
FromForeignKey(T, fk) ==
    {i \in DOMAIN cm.relationships :
        /\ cm.relationships[i].source_entity = T.name
        /\ cm.relationships[i].source_foreign_key = fk.name}

ColumnIsNonNullable(T, column_name) ==
    \E c \in DOMAIN T.columns : T.columns[c].name = column_name /\ ~T.columns[c].is_nullable

ColumnInPrimaryKey(T, column_name) ==
    T.primary_key.present /\ column_name \in Range(T.primary_key.columns)

\* the column is the only column of a unique index or of the primary key
SoleUniqueColumn(T, column_name) ==
    \/ \E x \in DOMAIN T.indexes :
          T.indexes[x].is_unique /\ T.indexes[x].columns = <<column_name>>
    \/ T.primary_key.present /\ T.primary_key.columns = <<column_name>>

\* the rule of C5; the delete rule is compared in upper case
RuleSemantics(T, fk) ==
    IF IsCascade(fk) THEN "COMPOSITION"
    ELSE IF ColumnIsNonNullable(T, fk.column) \/ ColumnInPrimaryKey(T, fk.column)
         THEN "AGGREGATION"
         ELSE "ASSOCIATION"

\* one relationship is built from fk of T, with these semantics; a mandatory
\* foreign key with no cascade rule and no uniqueness is MANY_TO_ONE
BuiltWithSemantics(T, fk, semantics) ==
    /\ Cardinality(FromForeignKey(T, fk)) = 1
    /\ \A i \in FromForeignKey(T, fk) :
          /\ cm.relationships[i].semantics = semantics
          /\ (~IsCascade(fk) /\ ColumnIsNonNullable(T, fk.column)
                 /\ ~SoleUniqueColumn(T, fk.column))
                => /\ cm.relationships[i].semantics = "AGGREGATION"
                   /\ cm.relationships[i].cardinality = "MANY_TO_ONE"

\* C5 (as amended): after enrich(), a non-inheritance foreign key fk of a
\* non-junction table T that is not marked is_subclass yields a relationship
\* with semantics COMPOSITION if the delete rule contains CASCADE, else
\* AGGREGATION if fk's column is non-nullable or in T's primary key, else
\* ASSOCIATION (a non-nullable, non-unique one without cascade: AGGREGATION and
\* MANY_TO_ONE); a non-inheritance foreign key of a table marked is_subclass
\* yields ASSOCIATION whatever its delete rule and column.
C5_SemanticsFollowTheRule ==
    Enriched =>
        \A t \in DOMAIN schema : \A f \in DOMAIN schema[t].foreign_keys :
            LET T == schema[t]
                fk == T.foreign_keys[f] IN
            (~is_junction_table(T) /\ ~fk.is_inheritance) =>
                IF T.is_subclass
                THEN /\ Cardinality(FromForeignKey(T, fk)) = 1
                     /\ \A i \in FromForeignKey(T, fk) :
                           cm.relationships[i].semantics = "ASSOCIATION"
                ELSE BuiltWithSemantics(T, fk, RuleSemantics(T, fk))

\* C5 witness: an enriched schema in which a non-junction table with an
\* inheritance foreign key has another, mandatory and cascading, foreign key
\* from which an ASSOCIATION is built, and in which a table without an
\* inheritance foreign key has a mandatory foreign key without cascade
C5_SubclassWithCascadingFkEnriched ==
    /\ Enriched
    /\ \E t \in DOMAIN schema : \E f \in DOMAIN schema[t].foreign_keys :
          LET T == schema[t]
              fk == T.foreign_keys[f] IN
          /\ ~is_junction_table(T) /\ T.is_subclass /\ ~fk.is_inheritance
          /\ IsCascade(fk) /\ ColumnIsNonNullable(T, fk.column)
          /\ \E i \in FromForeignKey(T, fk) : cm.relationships[i].semantics = "ASSOCIATION"
    /\ \E t \in DOMAIN schema : \E f \in DOMAIN schema[t].foreign_keys :
          LET T == schema[t]
              fk == T.foreign_keys[f] IN
          /\ ~is_junction_table(T) /\ ~T.is_subclass
          /\ ~IsCascade(fk) /\ ColumnIsNonNullable(T, fk.column)
          /\ \E i \in FromForeignKey(T, fk) : cm.relationships[i].semantics = "AGGREGATION"

\* C5 as stated: the rule holds of every non-inheritance foreign key of every
\* non-junction table, tables with an inheritance foreign key included
C5_AsStated ==
    Enriched =>
        \A t \in DOMAIN schema : \A f \in DOMAIN schema[t].foreign_keys :
            LET T == schema[t]
                fk == T.foreign_keys[f] IN
            (~is_junction_table(T) /\ ~fk.is_inheritance)
                => BuiltWithSemantics(T, fk, RuleSemantics(T, fk))

-----------------------------------------------------------------------------
(* Properties of the conceptual model and of the schema model               *)

TableNames == {schema[t].name : t \in DOMAIN schema}

\* every foreign key references a table of the schema
ReferencesResolve ==
    \A t \in DOMAIN schema : \A f \in DOMAIN schema[t].foreign_keys :
        schema[t].foreign_keys[f].referenced_table \in TableNames

\* C7 (as stated): in the conceptual model enrich() returns for a schema whose
\* foreign keys all reference tables of the schema, entity names are unique
\* and both endpoints of every relationship are names of entities of the model.
C7_EndpointsAreEntities ==
    (Enriched /\ ReferencesResolve) =>
        /\ \A d, e \in DOMAIN cm.entities :
              cm.entities[d].name = cm.entities[e].name => d = e
        /\ \A i \in DOMAIN cm.relationships :
              /\ cm.relationships[i].source_entity \in EntityNames
              /\ cm.relationships[i].target_entity \in EntityNames

\* get_junction_tables and get_entity_tables split the tables by predicate P:
\* every table is in exactly one of the two lists, in the list P says
PartitionedBy(P(_)) ==
    LET junctions == get_junction_tables(schema)
        entities  == get_entity_tables(schema) IN
    /\ Len(junctions) + Len(entities) = Len(schema)
    /\ Range(junctions) \cup Range(entities) = Range(schema)
    /\ Range(junctions) \cap Range(entities) = {}
    /\ \A t \in DOMAIN schema :
          /\ is_junction_table(schema[t]) <=> P(schema[t])
          /\ schema[t] \in Range(junctions) <=> P(schema[t])

\* C8 (as amended): is_junction_table() is true iff the table has a primary
\* key, exactly two foreign keys, and every primary-key column is the local
\* column of one of them; get_junction_tables() and get_entity_tables()
\* partition the tables by this predicate.
C8_JunctionPredicate ==
    PartitionedBy(LAMBDA table : table.primary_key.present /\ TwoFksCoverPk(table))

\* C8 witness: a schema with a junction table, a table with two foreign keys
\* and no primary key, and the lists taken by the fallback transformation
C8_TwoFksNoPkListed ==
    /\ tstate = "returned" /\ ~tr.has_cm
    /\ \E t \in DOMAIN schema :
          ~schema[t].primary_key.present /\ Len(schema[t].foreign_keys) = 2
    /\ \E t \in DOMAIN schema :
          schema[t].primary_key.present /\ TwoFksCoverPk(schema[t])
    /\ get_junction_tables(schema) # <<>>
    /\ get_entity_tables(schema) # <<>>

\* C8 as stated: the predicate is "exactly two foreign keys and every
\* primary-key column is the local column of one of them"
C8_AsStated == PartitionedBy(TwoFksCoverPk)

-----------------------------------------------------------------------------
(* Properties of GraphModel.add_relationship_type                           *)

Triple(rel_type) == <<rel_type.from_label, rel_type.name, rel_type.to_label>>

\* the last relationship type added with the triple
LastAdded(triple) ==
    added[CHOOSE i \in DOMAIN added :
              /\ Triple(added[i]) = triple
              /\ \A j \in DOMAIN added : Triple(added[j]) = triple => j <= i]

\* C9 (as stated): after any sequence of add_relationship_type calls the model
\* holds exactly one relationship type for each distinct (from_label, name,
\* to_label) that was added, the most recently added one with that triple.
C9_OnePerTriple ==
    LET held == [k \in DOMAIN gm.relationship_types |-> gm.relationship_types[k].value] IN
    phase = "graph_model" =>
        /\ {Triple(held[k]) : k \in DOMAIN held} = {Triple(added[i]) : i \in DOMAIN added}
        /\ \A i \in DOMAIN added :
              /\ Cardinality({k \in DOMAIN held : Triple(held[k]) = Triple(added[i])}) = 1
              /\ \A k \in DOMAIN held :
                    Triple(held[k]) = Triple(added[i]) => held[k] = LastAdded(Triple(added[i]))

-----------------------------------------------------------------------------
(* Properties of transform_row_to_node                                      *)

\* transform_row_to_node was called after transform() on the fallback path,
\* for a non-junction table of the schema
FallbackRowCallOver ==
    /\ rowcall.status # "none"
    /\ rowcall.on = "returned" /\ tr.has_schema /\ ~tr.has_cm
    /\ \E t \in DOMAIN schema :
          schema[t].name = rowcall.table_name /\ ~is_junction_table(schema[t])

\* C10 (as stated): the call returns the map that sends the sanitized name of
\* every column of the table that is not a foreign-key column to the converted
\* value the row has for it, and nothing else; its keys are the property names
\* of the table's node label.
C10_RowMapsEveryColumn ==
    FallbackRowCallOver =>
        LET table == schema[TableIndex(schema, rowcall.table_name)]
            label == gm.node_labels[LabelIndex(gm, sanitize_label(rowcall.table_name))]
            own   == {c \in DOMAIN table.columns :
                         table.columns[c].name \notin FkColumns(table)}
            keys  == {rowcall.properties[k].key : k \in DOMAIN rowcall.properties} IN
        /\ rowcall.status = "returned"
        /\ \A c \in own :
              \E k \in DOMAIN rowcall.properties :
                  /\ rowcall.properties[k].key = sanitize_property_name(table.columns[c].name)
                  /\ rowcall.properties[k].value =
                        convert_value(RowGet(rowcall.row, table.columns[c].name),
                                      table.columns[c].data_type)
        /\ keys = {sanitize_property_name(table.columns[c].name) : c \in own}
        /\ keys = {label.properties[p].name : p \in DOMAIN label.properties}


\* ---------------------------------------------------------------------------
\* Row conversion without a node label

\* the call of transform_row_to_node that a step makes
RowCallStep == rowcall = NoRowCall /\ rowcall' # NoRowCall

RowKeys == {rowcall.properties[i].key : i \in DOMAIN rowcall.properties}

\* a transformer constructed from a schema alone converted a row of a
\* non-junction table of that schema
SchemaRowCallOver ==
    /\ rowcall.status # "none"
    /\ tr.has_schema
    /\ ~tr.has_cm
    /\ TableIndex(schema, rowcall.table_name) # 0
    /\ ~is_junction_table(schema[TableIndex(schema, rowcall.table_name)])

\* C12: for a transformer constructed from a schema, transform_row_to_node for
\* a non-junction table of the schema returns normally with a key for every
\* column that is not a foreign-key column, whether or not transform() has been
\* called before.
C12_RowConversionNeedsNoTransform ==
    SchemaRowCallOver =>
        LET table == schema[TableIndex(schema, rowcall.table_name)] IN
        /\ rowcall.status = "returned"
        /\ \A c \in DOMAIN table.columns :
              ~IsFkColumn(table, table.columns[c].name)
                 => sanitize_property_name(table.columns[c].name) \in RowKeys


\* ---------------------------------------------------------------------------
\* The situations in which the transformer raises

\* transform() has been called and is over
TransformOver == tstate \notin {"none", "constructed"}

\* the graph model had a node label for the table of the row call when the
\* call was made; the graph model is empty until transform() has returned and
\* does not change afterwards
LabelExistedAtRowCall ==
    /\ rowcall.on = "returned"
    /\ LabelIndex(gm, sanitize_label(rowcall.table_name)) # 0

\* C13: transform() raises exactly when the transformer was constructed with
\* neither a conceptual model nor a schema, and transform_row_to_node() raises
\* exactly when the graph model has no node label for the table; on the
\* conceptual path (with or without a schema), on the fallback path, and for a
\* row of a table whose label exists, the calls return normally.
C13_RaisesInExactlyTwoSituations ==
    /\ TransformOver =>
          (tstate # "returned" <=> (~tr.has_cm /\ ~tr.has_schema))
    /\ rowcall.status # "none" =>
          (rowcall.status # "returned" <=> ~LabelExistedAtRowCall)


\* ---------------------------------------------------------------------------
\* enrich() completes on malformed schemas

\* the name built from the referenced table when no verb matches
FallbackName(fk) ==
    <<"H","A","S","_">> \o upper(replace(replace(fk.referenced_table, <<"t","b","l">>, <<>>),
                                         <<"_">>, <<>>))

VerbMatches(fk) ==
    \E i \in DOMAIN Verbs :
        \/ Contains(replace(replace(lower(fk.column), <<"_","i","d">>, <<>>),
                            <<"i","d">>, <<>>), Verbs[i].key)
        \/ Contains(lower(fk.referenced_table), Verbs[i].key)

\* no heuristic of the passes matches fk of T: its column is not in the primary
\* key (inheritance, weak entity, uniqueness by the key), has no unique index
\* of its own, is nullable or missing, the delete rule does not cascade, and
\* no verb keyword occurs in the column or the referenced table
NoPatternMatches(T, fk) ==
    /\ ~ColumnInPrimaryKey(T, fk.column)
    /\ ~SoleUniqueColumn(T, fk.column)
    /\ ~ColumnIsNonNullable(T, fk.column)
    /\ ~IsCascade(fk)
    /\ ~VerbMatches(fk)

\* one relationship is built from fk of T, with the default classification
BuiltWithDefaults(T, fk) ==
    /\ Cardinality(FromForeignKey(T, fk)) = 1
    /\ \A i \in FromForeignKey(T, fk) :
          /\ cm.relationships[i].semantics = "ASSOCIATION"
          /\ cm.relationships[i].cardinality = "MANY_TO_ONE"
          /\ cm.relationships[i].name = FallbackName(fk)

\* the malformed cases of the claim
ReferencedTableAbsent(fk) == TableIndex(schema, fk.referenced_table) = 0

ReferencedTableHasNoPk(fk) ==
    /\ TableIndex(schema, fk.referenced_table) # 0
    /\ ~schema[TableIndex(schema, fk.referenced_table)].primary_key.present

LocalColumnMissing(T, fk) == fk.column \notin Range(ColumnNames(T))

Malformed(T, fk) ==
    \/ ~T.primary_key.present
    \/ ReferencedTableAbsent(fk)
    \/ ReferencedTableHasNoPk(fk)
    \/ LocalColumnMissing(T, fk)

DefaultsWhereNoPatternMatches ==
    \A t \in DOMAIN schema :
        ~is_junction_table(schema[t]) =>
            \A f \in DOMAIN schema[t].foreign_keys :
                NoPatternMatches(schema[t], schema[t].foreign_keys[f])
                    => BuiltWithDefaults(schema[t], schema[t].foreign_keys[f])

FallbackTransformOver == tstate = "returned" /\ tr.has_schema /\ ~tr.has_cm

\* the columns of T that become properties, in column order
PropertyColumns(T) ==
    SelectSeq(T.columns, LAMBDA col : col.name \notin FkColumns(T))

\* the positions of the columns of T that are in the primary key and are no
\* foreign-key column
OwnKeyColumns(T) ==
    {c \in DOMAIN T.columns :
        /\ ColumnInPrimaryKey(T, T.columns[c].name)
        /\ T.columns[c].name \notin FkColumns(T)}

LabelsOf(T) ==
    {i \in DOMAIN gm.node_labels : gm.node_labels[i].source_table = T.name}

\* the label has one property per property column, in column order
OnePropertyPerColumn(T, label) ==
    /\ Len(label.properties) = Len(PropertyColumns(T))
    /\ \A k \in DOMAIN label.properties :
          /\ label.properties[k].original_column = PropertyColumns(T)[k].name
          /\ label.properties[k].name = sanitize_property_name(PropertyColumns(T)[k].name)
          /\ label.properties[k].is_required = ~PropertyColumns(T)[k].is_nullable
          /\ label.properties[k].is_indexed
                = ColumnInPrimaryKey(T, PropertyColumns(T)[k].name)

\* the label's primary key is the property of a primary-key column and that
\* property is marked indexed
KeyIsIndexedKeyColumn(T, label) ==
    \E k \in DOMAIN label.properties :
        /\ label.properties[k].name = label.primary_key
        /\ label.properties[k].is_indexed
        /\ ColumnInPrimaryKey(T, label.properties[k].original_column)

LabelOutcome(T) ==
    IF is_junction_table(T) THEN LabelsOf(T) = {}
    ELSE /\ Cardinality(LabelsOf(T)) = 1
         /\ \A i \in LabelsOf(T) :
               /\ gm.node_labels[i].name = sanitize_label(T.name)
               /\ OnePropertyPerColumn(T, gm.node_labels[i])

BothEnriched == Enriched /\ twin.phase = "enriched"

NamesOf(seq) == [i \in DOMAIN seq |-> seq[i].name]

WeakPassOver == phase \in {"weak", "cardinality", "names", "entities", "enriched"}

\* the non-inheritance foreign keys of T whose local column is in T's primary key
IdentifyingFks(T) ==
    {f \in DOMAIN T.foreign_keys :
        /\ ~T.foreign_keys[f].is_inheritance
        /\ ColumnInPrimaryKey(T, T.foreign_keys[f].column)}

\* where the name occurs in weak_entity_groups: (group, position) pairs
WeakGroupRecords(name) ==
    UNION { { <<g, k>> : k \in {j \in DOMAIN cm.weak_entity_groups[g].members :
                                    cm.weak_entity_groups[g].members[j] = name} } :
            g \in DOMAIN cm.weak_entity_groups }

FirstOf(S) == CHOOSE f \in S : \A g \in S : f <= g

\* C17: after the weak-entity pass, a table that is not a subclass and has
\* several non-inheritance foreign keys on primary-key columns has the weak
\* state of the first of them: owner_table is the table the first one
\* references, the table is recorded once in weak_entity_groups, under that
\* owner, and the later ones carry the aggregation flag only.
C17_FirstIdentifyingFkWins ==
    WeakPassOver =>
        \A t \in DOMAIN schema :
            (~schema[t].is_subclass /\ IdentifyingFks(schema[t]) # {}) =>
                LET T == schema[t]
                    first == FirstOf(IdentifyingFks(T))
                IN  /\ T.is_weak_entity
                    /\ T.owner_table = T.foreign_keys[first].referenced_table
                    /\ Cardinality(WeakGroupRecords(T.name)) = 1
                    /\ \A r \in WeakGroupRecords(T.name) :
                          cm.weak_entity_groups[r[1]].owner
                              = T.foreign_keys[first].referenced_table
                    /\ \A f \in IdentifyingFks(T) \ {first} :
                          /\ T.foreign_keys[f].is_aggregation
                          /\ ~T.foreign_keys[f].is_weak_entity


\* ---------------------------------------------------------------------------
\* Relationship types of the fallback path

\* the relationship types of the graph model that were built from fk of T
TypesOfForeignKey(T, fk) ==
    {i \in DOMAIN gm.relationship_types :
        /\ gm.relationship_types[i].value.source_foreign_key = fk.name
        /\ gm.relationship_types[i].value.from_label = sanitize_label(T.name)
        /\ gm.relationship_types[i].value.to_label = sanitize_label(fk.referenced_table)}

\* the foreign keys of the non-junction tables: (table, foreign key) positions
EntityForeignKeys ==
    UNION { { <<t, f>> : f \in DOMAIN schema[t].foreign_keys } :
            t \in {u \in DOMAIN schema : ~is_junction_table(schema[u])} }

ForeignKeyDerivedTypes ==
    {i \in DOMAIN gm.relationship_types :
        gm.relationship_types[i].value.source_foreign_key # NoneS}

\* C18: after transform() on the fallback path every foreign key of every
\* non-junction table has a relationship type with its name as
\* source_foreign_key, from the label of its table to the label of the
\* referenced table, also when a table has several foreign keys to one table:
\* there are as many foreign-key-derived relationship types as such foreign keys.
C18_EveryForeignKeyRepresented ==
    FallbackTransformOver =>
        /\ \A p \in EntityForeignKeys :
              TypesOfForeignKey(schema[p[1]], schema[p[1]].foreign_keys[p[2]]) # {}
        /\ Cardinality(ForeignKeyDerivedTypes) = Cardinality(EntityForeignKeys)


\* C19: on the fallback path the relationship type built from a foreign key
\* has the foreign key's relationship_name as its name when an enrichment pass
\* has assigned one, and the name derived from the two table names otherwise.
C19_EnrichedNameIsUsed ==
    FallbackTransformOver =>
        \A p \in EntityForeignKeys :
            LET T  == schema[p[1]]
                fk == T.foreign_keys[p[2]]
            IN  \A i \in TypesOfForeignKey(T, fk) :
                    gm.relationship_types[i].value.name =
                        IF Truthy(fk.relationship_name)
                        THEN fk.relationship_name
                        ELSE create_relationship_type_name(T.name, fk.referenced_table)


\* ---------------------------------------------------------------------------
\* One entity per non-junction table

EntitiesOf(T) == {e \in DOMAIN cm.entities : cm.entities[e].name = T.name}

\* the local columns of the foreign keys of T that are no inheritance keys
NonInheritanceFkColumns(T) ==
    {T.foreign_keys[f].column :
        f \in {g \in DOMAIN T.foreign_keys : ~T.foreign_keys[g].is_inheritance}}

AllForeignKeys ==
    UNION { { <<t, f>> : f \in DOMAIN schema[t].foreign_keys } : t \in DOMAIN schema }

IsAName(referenced_table) == <<"I","S","_","A","_">> \o upper(referenced_table)

\* the step of the cardinality pass or of the naming pass
CardinalityOrNamingStep ==
    \/ phase = "weak" /\ phase' = "cardinality"
    \/ phase = "cardinality" /\ phase' = "names"

\* the inheritance foreign keys of the enriched schema and their relationships
InheritanceKeysKeepTheirMarks ==
    \A p \in AllForeignKeys :
        LET T  == schema[p[1]]
            fk == T.foreign_keys[p[2]]
        IN  fk.is_inheritance =>
                /\ fk.cardinality = "1:1"
                /\ fk.relationship_name = IsAName(fk.referenced_table)
                /\ ~is_junction_table(T) =>
                      /\ FromForeignKey(T, fk) # {}
                      /\ \A i \in FromForeignKey(T, fk) :
                            /\ cm.relationships[i].semantics = "INHERITANCE"
                            /\ cm.relationships[i].cardinality = "ONE_TO_ONE"
                            /\ cm.relationships[i].name = IsAName(fk.referenced_table)

CardinalityStrings == {"1:1", "1:N", "N:1", "N:M", "M:N", "n:1", "1:n", "N:N", "1", ""}

\* the relationships of the model split by their origin
JunctionRelationshipsAreManyToMany ==
    \A i \in DOMAIN cm.relationships :
        /\ cm.relationships[i].cardinality = "MANY_TO_MANY"
              <=> cm.relationships[i].source_junction_table # NoneS
        /\ cm.relationships[i].source_foreign_key # NoneS
              => cm.relationships[i].cardinality \in {"ONE_TO_ONE", "MANY_TO_ONE"}

ForeignKeyStructure(fk) ==
    [name |-> fk.name, column |-> fk.column, referenced_table |-> fk.referenced_table,
     referenced_column |-> fk.referenced_column, on_delete |-> fk.on_delete]

TableStructure(T) ==
    [name |-> T.name, columns |-> T.columns, primary_key |-> T.primary_key,
     indexes |-> T.indexes,
     foreign_keys |-> [f \in DOMAIN T.foreign_keys |-> ForeignKeyStructure(T.foreign_keys[f])]]

SchemaStructure(tables) == [t \in DOMAIN tables |-> TableStructure(tables[t])]

\* a step of the transformer: its construction, transform(), a row conversion
TransformerStep == tr' # tr \/ tstate' # tstate \/ rowcall' # rowcall

\* C23: enrich() changes nothing of the schema but the annotation fields of
\* tables and foreign keys: the tables, their names, columns, primary keys and
\* indexes, and each foreign key's name, column, target and delete rule stay;
\* transform() and transform_row_to_node() change nothing of the schema and
\* nothing of the conceptual model.
C23_OnlyAnnotationsAreWritten ==
    [][/\ SchemaStructure(schema') = SchemaStructure(schema)
       /\ TransformerStep => (schema' = schema /\ cm' = cm)]_vars

\* a row was converted after enrich() had annotated the schema and transform()
\* had returned on it
C23_RowConvertedOnAnnotatedSchema ==
    /\ Enriched
    /\ rowcall.status = "returned"
    /\ rowcall.on = "returned"
    /\ \E t \in DOMAIN schema : schema[t].is_weak_entity \/ schema[t].is_subclass
    /\ \E p \in AllForeignKeys :
          Truthy(schema[p[1]].foreign_keys[p[2]].relationship_name)


\* ---------------------------------------------------------------------------
\* The names of the naming pass

\* the column name in lower case without any "_id" and then without any "id"
WithoutIds(column) ==
    replace(replace(lower(column), <<"_","i","d">>, <<>>), <<"i","d">>, <<>>)

\* the column name in lower case without a trailing "_id" or "id"
WithoutTrailingId(column) ==
    LET s == lower(column)
        n == Len(s)
    IN  IF n >= 3 /\ SubSeq(s, n - 2, n) = <<"_","i","d">> THEN SubSeq(s, 1, n - 3)
        ELSE IF n >= 2 /\ SubSeq(s, n - 1, n) = <<"i","d">> THEN SubSeq(s, 1, n - 2)
        ELSE s

\* the keywords that occur in the stripped column or in the referenced table
MatchingVerbs(stripped_column, fk) ==
    {i \in DOMAIN Verbs :
        \/ Contains(stripped_column, Verbs[i].key)
        \/ Contains(lower(fk.referenced_table), Verbs[i].key)}

\* the name of the rule: the first matching keyword's name, else PART_OF_ or
\* HAS_ before the cleaned referenced table
RuleName(fk, stripped_column, clean_ref) ==
    IF MatchingVerbs(stripped_column, fk) # {}
    THEN Verbs[FirstOf(MatchingVerbs(stripped_column, fk))].verb
    ELSE (IF fk.is_aggregation THEN <<"P","A","R","T","_","O","F","_">>
          ELSE <<"H","A","S","_">>) \o clean_ref

NamingStep == phase = "cardinality" /\ phase' = "names"

EveryForeignKeyIsNamed ==
    \A p \in AllForeignKeys :
        /\ schema[p[1]].foreign_keys[p[2]].relationship_name # NoneS
        /\ schema[p[1]].foreign_keys[p[2]].relationship_name # <<>>

\* C24 (the rule the naming pass follows): a foreign key without relationship_name gets from the
\* naming pass the name of the first keyword, in the order manager, employee,
\* supervisor, owner, creator, author, user, customer, department, company,
\* category, parent, project, that occurs in the lower-cased column name with
\* every "_id" and then every "id" taken out (not only a trailing one), or in
\* the lower-cased referenced table name; with no such keyword it gets
\* PART_OF_<X> when flagged aggregation and HAS_<X> otherwise, <X> being the
\* referenced table name with every "tbl" and every underscore taken out,
\* upper-cased. After enrich() every foreign key has a non-empty name.
C24_NameOfTheNamingPass ==
    [][/\ NamingStep =>
             \A p \in AllForeignKeys :
                 LET fk  == schema[p[1]].foreign_keys[p[2]]
                     fk2 == schema'[p[1]].foreign_keys[p[2]]
                 IN  ~Truthy(fk.relationship_name) =>
                         fk2.relationship_name =
                             RuleName(fk, WithoutIds(fk.column),
                                      upper(replace(replace(fk.referenced_table,
                                                            <<"t","b","l">>, <<>>),
                                                    <<"_">>, <<>>)))
       /\ Enriched' => EveryForeignKeyIsNamed']_vars

\* the naming pass has named a foreign key that matches two keywords, one whose
\* referenced table starts with tbl and matches none, and one whose column
\* holds a keyword only once "id" is taken out
C24_NamedByEveryRule ==
    /\ phase = "names"
    /\ \E p \in AllForeignKeys :
          LET fk == schema[p[1]].foreign_keys[p[2]] IN
          /\ Cardinality(MatchingVerbs(WithoutIds(fk.column), fk)) >= 2
          /\ fk.relationship_name = <<"O","W","N","S">>
    /\ \E p \in AllForeignKeys :
          LET fk == schema[p[1]].foreign_keys[p[2]] IN
          /\ Contains(fk.referenced_table, <<"t","b","l">>)
          /\ fk.relationship_name = <<"H","A","S","_","O","R","D","E","R","S">>
    /\ \E p \in AllForeignKeys :
          LET fk == schema[p[1]].foreign_keys[p[2]] IN
          /\ MatchingVerbs(WithoutTrailingId(fk.column), fk) = {}
          /\ fk.relationship_name = <<"C","H","I","L","D","_","O","F">>
    /\ \E p \in AllForeignKeys :
          LET fk == schema[p[1]].foreign_keys[p[2]] IN
          /\ fk.is_aggregation /\ ~fk.is_inheritance
          /\ SubSeq(fk.relationship_name, 1, 8) = <<"P","A","R","T","_","O","F","_">>

\* C24 as stated: the column with its trailing _id/id stripped, <X> the
\* referenced table name with underscores removed and upper-cased
C24_AsStated ==
    [][/\ NamingStep =>
             \A p \in AllForeignKeys :
                 LET fk  == schema[p[1]].foreign_keys[p[2]]
                     fk2 == schema'[p[1]].foreign_keys[p[2]]
                 IN  ~Truthy(fk.relationship_name) =>
                         fk2.relationship_name =
                             RuleName(fk, WithoutTrailingId(fk.column),
                                      upper(replace(fk.referenced_table, <<"_">>, <<>>)))
       /\ Enriched' => EveryForeignKeyIsNamed']_vars


\* ---------------------------------------------------------------------------
\* The type of a property

\* the SQL type of the first column of the first table, lower-cased
SqlTypeLower == lower(schema[1].columns[1].data_type)

Occurs(word) == Contains(SqlTypeLower, word)

IntegerFamily == Occurs(<<"i","n","t">>) \/ Occurs(<<"s","e","r","i","a","l">>)

FloatFamily ==
    \/ Occurs(<<"f","l","o","a","t">>) \/ Occurs(<<"d","o","u","b","l","e">>)
    \/ Occurs(<<"r","e","a","l">>) \/ Occurs(<<"d","e","c","i","m","a","l">>)
    \/ Occurs(<<"n","u","m","e","r","i","c">>)

BooleanFamily == Occurs(<<"b","o","o","l">>) \/ Occurs(<<"b","i","t">>)

DateTimeFamily == Occurs(<<"d","a","t","e">>) \/ Occurs(<<"t","i","m","e">>)

JsonFamily == Occurs(<<"j","s","o","n">>)

TypeOfFirstFamily ==
    IF IntegerFamily THEN "INTEGER"
    ELSE IF FloatFamily THEN "FLOAT"
    ELSE IF BooleanFamily THEN "BOOLEAN"
    ELSE IF DateTimeFamily
         THEN IF Occurs(<<"d","a","t","e">>) /\ ~Occurs(<<"t","i","m","e">>)
              THEN "DATE" ELSE "DATETIME"
    ELSE IF JsonFamily THEN "MAP"
    ELSE "STRING"

\* C25: the SQL-to-property type mapping is total and never raises: the type
\* of the property is that of the first family, in the order integer, float,
\* boolean, date/time, json, with a member occurring in the lower-cased SQL
\* type; DATE when the type holds 'date' and not 'time', DATETIME otherwise
\* in the date/time family; MAP for json; STRING with no family; never LIST.
C25_TypeOfFirstFamily ==
    /\ tstate \in {"none", "constructed", "returned"}
    /\ tstate = "returned" =>
          /\ Len(gm.node_labels) = 1
          /\ Len(gm.node_labels[1].properties) = 1
          /\ gm.node_labels[1].properties[1].type = TypeOfFirstFamily
          /\ gm.node_labels[1].properties[1].type # "LIST"

\* a type in upper case in which the integer and the date/time family meet has
\* been mapped
C25_TwoFamiliesMeet ==
    /\ tstate = "returned"
    /\ schema[1].columns[1].data_type # SqlTypeLower
    /\ IntegerFamily /\ DateTimeFamily
    /\ gm.node_labels[1].properties[1].type = "INTEGER"


\* ---------------------------------------------------------------------------
\* Junction tables and the inheritance and weak-entity structures

JunctionTables == {t \in DOMAIN schema : is_junction_table(schema[t])}

\* the names in inheritance_hierarchies
HierarchyNames ==
    UNION {Range(cm.inheritance_hierarchies[h]) : h \in DOMAIN cm.inheritance_hierarchies}

\* the names in the subclasses lists of the entities
SubclassNames == UNION {Range(cm.entities[e].subclasses) : e \in DOMAIN cm.entities}

\* the owners and the members of weak_entity_groups
WeakGroupNames ==
    UNION {{cm.weak_entity_groups[g].owner} \cup Range(cm.weak_entity_groups[g].members) :
              g \in DOMAIN cm.weak_entity_groups}

\* C26: after enrich(), no junction table is flagged is_subclass or
\* is_weak_entity, no junction table's name occurs in inheritance_hierarchies,
\* in an entity's subclasses or in weak_entity_groups, and every name in those
\* structures is the name of an entity of the model.
C26_JunctionsKeptOutOfStructures ==
    Enriched =>
        /\ \A t \in JunctionTables :
              /\ ~schema[t].is_subclass
              /\ ~schema[t].is_weak_entity
              /\ schema[t].name \notin HierarchyNames \cup SubclassNames \cup WeakGroupNames
        /\ HierarchyNames \cup SubclassNames \cup WeakGroupNames \subseteq EntityNames


\* ---------------------------------------------------------------------------
\* INHERITANCE relationships and the superclass links of the entities

InheritanceRelationships ==
    {r \in DOMAIN cm.relationships : cm.relationships[r].semantics = "INHERITANCE"}

\* the entities of that name
EntitiesNamed(name) == {e \in DOMAIN cm.entities : cm.entities[e].name = name}

\* the source entity's superclass is the target, which lists the source
LinkedBothWays(r) ==
    /\ EntitiesNamed(cm.relationships[r].source_entity) # {}
    /\ EntitiesNamed(cm.relationships[r].target_entity) # {}
    /\ \A e \in EntitiesNamed(cm.relationships[r].source_entity) :
          cm.entities[e].superclass = cm.relationships[r].target_entity
    /\ \A e \in EntitiesNamed(cm.relationships[r].target_entity) :
          cm.relationships[r].source_entity \in Range(cm.entities[e].subclasses)

\* C27: after enrich(), for every INHERITANCE relationship r the entity
\* r.source_entity has superclass = r.target_entity and the entity
\* r.target_entity lists r.source_entity in subclasses; every entity with a
\* superclass has an INHERITANCE relationship to it. This holds also for a
\* table with inheritance foreign keys to two different tables.
C27_InheritanceRelationshipsMatchSuperclassLinks ==
    Enriched =>
        /\ \A r \in InheritanceRelationships : LinkedBothWays(r)
        /\ \A e \in DOMAIN cm.entities :
              cm.entities[e].superclass # NoneS =>
                  \E r \in InheritanceRelationships :
                      /\ cm.relationships[r].source_entity = cm.entities[e].name
                      /\ cm.relationships[r].target_entity = cm.entities[e].superclass


\* ---------------------------------------------------------------------------
\* The key and the indexes of a label name properties of the label

PropertyNames(label) == {label.properties[p].name : p \in DOMAIN label.properties}

\* C28: after the fallback transform(), the primary_key of every label (when
\* set) and every entry of its indexes is the name of one of the label's
\* properties, also for a table whose indexes or primary key include
\* foreign-key columns.
C28_KeyAndIndexesNameProperties ==
    FallbackTransformOver =>
        \A l \in DOMAIN gm.node_labels :
            /\ gm.node_labels[l].primary_key # NoneS =>
                  gm.node_labels[l].primary_key \in PropertyNames(gm.node_labels[l])
            /\ Range(gm.node_labels[l].indexes) \subseteq PropertyNames(gm.node_labels[l])


\* ---------------------------------------------------------------------------
\* enrich() called twice on one enricher

SecondRunOver == twin.phase = "returned" /\ phase = "enriched"

\* C29: enrich() called a second time on the same SemanticEnricher returns a
\* model equal to the first: the same entities, the same relationship list
\* with no duplicates, the same inheritance_hierarchies and weak_entity_groups.
C29_SecondRunReturnsEqualModel ==
    SecondRunOver =>
        /\ cm.entities = twin.cm.entities
        /\ cm.relationships = twin.cm.relationships
        /\ cm.inheritance_hierarchies = twin.cm.inheritance_hierarchies
        /\ cm.weak_entity_groups = twin.cm.weak_entity_groups


\* ---------------------------------------------------------------------------
\* Inheritance and weak-entity marks exclude each other

\* C30: after enrich() on a schema whose annotations were unset, no table is
\* both is_subclass and is_weak_entity, no foreign key is both is_inheritance
\* and is_aggregation or is_weak_entity, no entity has both a superclass and
\* an owner_entity, and no non-inheritance foreign key of a subclass table is
\* flagged aggregation or weak.
C30_InheritanceExcludesWeakMarks ==
    Enriched =>
        /\ \A t \in DOMAIN schema : ~(schema[t].is_subclass /\ schema[t].is_weak_entity)
        /\ \A p \in AllForeignKeys :
              LET fk == schema[p[1]].foreign_keys[p[2]] IN
              /\ ~(fk.is_inheritance /\ (fk.is_aggregation \/ fk.is_weak_entity))
              /\ schema[p[1]].is_subclass => ~(fk.is_aggregation \/ fk.is_weak_entity)
        /\ \A e \in DOMAIN cm.entities :
              ~(cm.entities[e].superclass # NoneS /\ cm.entities[e].owner_entity # NoneS)

\* enrich() has returned on a schema with a subclass table that has a
\* cascading foreign key besides its inheritance keys and is an entity, and
\* with a weak table
C30_SubclassWithCascadingKeyEnriched ==
    /\ Enriched
    /\ \E t \in DOMAIN schema :
          /\ schema[t].is_subclass
          /\ EntitiesOf(schema[t]) # {}
          /\ \E f \in DOMAIN schema[t].foreign_keys :
                /\ ~schema[t].foreign_keys[f].is_inheritance
                /\ IsCascade(schema[t].foreign_keys[f])
    /\ \E t \in DOMAIN schema : schema[t].is_weak_entity
=============================================================================
